---- MODULE Spec2Model ----
(***************************************************************************)
(* Trust state machine of the registration store (beefirst).               *)
(*                                                                         *)
(* The model follows src/adapters/repository/postgres.py: the table        *)
(* `registrations`, the upsert of claim_email and the row-locked           *)
(* transaction of verify_and_activate, run by several connections of the   *)
(* pool at once.  A transaction is three steps: it begins (NOW() is fixed  *)
(* to the store's clock at that instant), it executes its statements once  *)
(* the row lock of its email is free, and it commits, which publishes its  *)
(* write, releases the lock and returns the result to the caller.          *)
(***************************************************************************)
EXTENDS Integers, FiniteSets, Sequences, TLC

(* ----------------------------- bounds ---------------------------------- *)
NumProcs == 2
MaxTime == 61
\* The SUCCESS results of an email are counted up to this number.
MaxSuccesses == 2

(* ------------------------ program constants ---------------------------- *)
TTL == 60
MaxAttempts == 3

Procs == 1..NumProcs
Emails == {"a@x.com"}
\* The emails a row lock can be taken for: those above and one more, which
\* the runs of calls on different emails use.
AllEmails == Emails \cup {"b@x.com"}
DummyCode == "0000"
Codes == {DummyCode, "1234"}
DummyPassword == "dummy_password_for_timing_safety"
Passwords == {"pw1", DummyPassword}

\* The store's clock is observed when the table is created and at the
\* instants around the end of the TTL window.
Instants == {0} \cup ((TTL - 1)..MaxTime)

\* SQL NULL of the password_hash column and of the activated_at column.
NULL == <<>>
NoTime == -1

(* --------------------------- bcrypt ------------------------------------ *)
\* bcrypt.hashpw(password, bcrypt.gensalt(10)): version and cost, salt, digest.
Hashpw(password, salt) == <<"2b$10", salt, <<salt, password>>>>

\* bcrypt.checkpw(password, hash): re-hash with the salt of the stored hash.
Checkpw(password, hash) == Hashpw(password, hash[2]) = hash

_DUMMY_BCRYPT_HASH == Hashpw(DummyPassword, "salt0")

\* secrets.compare_digest(a, b)
CompareDigest(a, b) == a = b

\* The credentials the service passes to claim_email: the hash of the
\* caller's password (_hash_password) and a generated code.
ClaimArgs == {<<Hashpw("pw1", "salt1"), "1234">>, <<Hashpw(DummyPassword, "salt2"), DummyCode>>}

(* ------------------------- TrustState / VerifyResult ------------------- *)
TrustState == {"CLAIMED", "ACTIVE", "EXPIRED", "LOCKED"}
VerifyResult == {"SUCCESS", "INVALID_CODE", "EXPIRED", "LOCKED", "NOT_FOUND"}

(* ------------------------------ state ---------------------------------- *)
VARIABLES
    registrations,  \* committed rows of the table
    rowLock,        \* per email: the connection holding the row lock, 0 if free
    now,            \* the store's clock
    pc,             \* per connection: position of its current call
    call,           \* per connection: operation and arguments of its call
    txNow,          \* per connection: NOW() of its transaction
    wr,             \* per connection: uncommitted row version it has written
    result,         \* per connection: value the call returns
    registrations0, \* the table at the start of the run
    ops,            \* per connection: comparisons and return of its running verify
    svc,            \* the request running in the API and service layer
    successes       \* per email: SUCCESS results returned so far (history)

vars == <<registrations, rowLock, now, pc, call, txNow, wr, result, registrations0,
         ops, svc, successes>>

NoCall == [op |-> "none", email |-> "", code |-> "", password |-> "", password_hash |-> NULL]

\* WHERE email = %s
RowsOf(table, email) == {r \in table : r.email = email}
RowOf(table, email) == CHOOSE r \in table : r.email = email

(* ------------------------- claim_email: sql ---------------------------- *)
\* VALUES (%s, %s, %s, 'CLAIMED', 0, NOW()); activated_at takes its default.
InsertedRow(email, password_hash, code, tnow) ==
    [email |-> email, password_hash |-> password_hash, verification_code |-> code,
     state |-> "CLAIMED", attempt_count |-> 0, created_at |-> tnow,
     activated_at |-> NoTime]

\* Mutant: the WHERE clause also lets a pending claim be overwritten.
ClaimConflictWhere_AllowsClaimed(row) == row.state \in {"EXPIRED", "LOCKED", "CLAIMED"}

\* Mutant: the conflict update has lost its WHERE clause.
ClaimConflictWhere_Missing(row) == row.state \in TrustState

\* WHERE registrations.state IN ('EXPIRED', 'LOCKED')
ClaimConflictWhere(row) == row.state \in {"EXPIRED", "LOCKED"}

\* Mutant: the re-claim forgets to reset the attempt counter.
ClaimConflictUpdate_KeepsAttempts(row, password_hash, code, tnow) ==
    [row EXCEPT !.password_hash = password_hash,
                !.verification_code = code,
                !.state = "CLAIMED",
                !.created_at = tnow,
                !.activated_at = NoTime]

\* Mutant: the re-claim does not store the new password hash.
ClaimConflictUpdate_KeepsHash(row, password_hash, code, tnow) ==
    [row EXCEPT !.verification_code = code,
                !.state = "CLAIMED",
                !.attempt_count = 0,
                !.created_at = tnow,
                !.activated_at = NoTime]

\* Mutant: the re-claim does not store the new verification code.
ClaimConflictUpdate_KeepsCode(row, password_hash, code, tnow) ==
    [row EXCEPT !.password_hash = password_hash,
                !.state = "CLAIMED",
                !.attempt_count = 0,
                !.created_at = tnow,
                !.activated_at = NoTime]

\* ON CONFLICT (email) DO UPDATE SET ...
ClaimConflictUpdate(row, password_hash, code, tnow) ==
    [row EXCEPT !.password_hash = password_hash,
                !.verification_code = code,
                !.state = "CLAIMED",
                !.attempt_count = 0,
                !.created_at = tnow,
                !.activated_at = NoTime]

\* Mutant: a plain INSERT, with no ON CONFLICT (email) arbiter.
ClaimSql_AlwaysInserts(table, email, password_hash, code, tnow) ==
    [rows |-> {InsertedRow(email, password_hash, code, tnow)}, rowcount |-> 1]

\* The whole statement against the visible table: the rows it writes and
\* cursor.rowcount.
ClaimSql(table, email, password_hash, code, tnow) ==
    IF RowsOf(table, email) = {}
    THEN [rows |-> {InsertedRow(email, password_hash, code, tnow)}, rowcount |-> 1]
    ELSE LET row == RowOf(table, email) IN
         IF ClaimConflictWhere(row)
         THEN [rows |-> {ClaimConflictUpdate(row, password_hash, code, tnow)},
               rowcount |-> 1]
         ELSE [rows |-> {}, rowcount |-> 0]

(* --------------------- verify_and_activate: sql ------------------------ *)
\* Mutant: the activation stamps activated_at but leaves the state CLAIMED.
ActivateSql_KeepsState(row, tnow) ==
    IF row.state = "CLAIMED"
    THEN [row EXCEPT !.activated_at = tnow]
    ELSE row

\* Mutant: the activation does not stamp activated_at.
ActivateSql_NoTimestamp(row, tnow) ==
    IF row.state = "CLAIMED"
    THEN [row EXCEPT !.state = "ACTIVE"]
    ELSE row

\* Mutant: the activation also purges the stored credential.
ActivateSql_PurgesHash(row, tnow) ==
    IF row.state = "CLAIMED"
    THEN [row EXCEPT !.state = "ACTIVE", !.activated_at = tnow, !.password_hash = NULL]
    ELSE row

\* UPDATE ... SET state = 'ACTIVE', activated_at = NOW() WHERE ... state = 'CLAIMED'
ActivateSql(row, tnow) ==
    IF row.state = "CLAIMED"
    THEN [row EXCEPT !.state = "ACTIVE", !.activated_at = tnow]
    ELSE row

\* Mutant: a failed attempt counts twice.
IncrementSql_ByTwo(row) ==
    IF row.state = "CLAIMED"
    THEN [row EXCEPT !.attempt_count = @ + 2]
    ELSE row

\* UPDATE ... SET attempt_count = attempt_count + 1 WHERE ... state = 'CLAIMED'
IncrementSql(row) ==
    IF row.state = "CLAIMED"
    THEN [row EXCEPT !.attempt_count = @ + 1]
    ELSE row

\* Mutant: the lockout keeps the stored credential.
LockSql_KeepsHash(row) ==
    IF row.state = "CLAIMED"
    THEN [row EXCEPT !.state = "LOCKED", !.attempt_count = @ + 1]
    ELSE row

\* UPDATE ... SET state = 'LOCKED', attempt_count = attempt_count + 1,
\*                password_hash = NULL WHERE ... state = 'CLAIMED'
LockSql(row) ==
    IF row.state = "CLAIMED"
    THEN [row EXCEPT !.state = "LOCKED", !.attempt_count = @ + 1,
                     !.password_hash = NULL]
    ELSE row

\* Mutant: the window is one second too long.
TtlSql_Late(row, tnow) == row.state = "CLAIMED" /\ row.created_at >= tnow - TTL - 1

\* Mutant: the age of the row is not looked at.
TtlSql_IgnoresAge(row, tnow) == row.state = "CLAIMED"

\* SELECT 1 ... WHERE state = 'CLAIMED' AND created_at > NOW() - INTERVAL '60 seconds'
TtlSql(row, tnow) == row.state = "CLAIMED" /\ row.created_at > tnow - TTL

\* UPDATE ... SET state = 'EXPIRED', password_hash = NULL WHERE ... state = 'CLAIMED'
ExpireSql(row) ==
    IF row.state = "CLAIMED"
    THEN [row EXCEPT !.state = "EXPIRED", !.password_hash = NULL]
    ELSE row

\* Mutant: the LOCKED check is missing.
RowIsLocked_Never(state) == state \notin TrustState

\* if state == TrustState.LOCKED.value
RowIsLocked(state) == state = "LOCKED"

\* Mutant: only ACTIVE rows are answered NOT_FOUND.
NotClaimed_OnlyActive(state) == state = "ACTIVE"

\* Mutant: only EXPIRED rows are answered NOT_FOUND.
NotClaimed_OnlyExpired(state) == state = "EXPIRED"

\* if state != TrustState.CLAIMED.value
NotClaimed(state) == state # "CLAIMED"

\* Mutant: the count already reached is not looked at.
AttemptsExhausted_Never(attempt_count) == FALSE

\* if attempt_count >= 3
AttemptsExhausted(attempt_count) == attempt_count >= MaxAttempts

\* Mutant: a wrong password alone is not counted as a failure.
CredentialsRejected_CodeOnly(code_valid, password_valid) == ~code_valid

\* if not code_valid or not password_valid
CredentialsRejected(code_valid, password_valid) == ~code_valid \/ ~password_valid

\* Mutant: the lockout fires one failure late.
LockoutReached_Late(new_attempt_count) == new_attempt_count > MaxAttempts

\* if new_attempt_count >= 3
LockoutReached(new_attempt_count) == new_attempt_count >= MaxAttempts

\* code_valid = secrets.compare_digest(stored_code, code)
\* password_valid = bcrypt.checkpw(password.encode(), stored_hash.encode())
\* as the two calls the function makes, in order.
Comparisons(stored_code, stored_hash, code, password) ==
    << [fn |-> "compare_digest", stored |-> stored_code, given |-> code],
       [fn |-> "checkpw", given |-> password, hashed |-> stored_hash] >>

\* return VerifyResult.<value>, after the calls made so far.
Returning(made, value) == Append(made, [fn |-> "return", value |-> value])

\* The decision of verify_and_activate on the row it has locked: the result
\* it returns, the row version it leaves, and the comparisons it made on
\* the way to the return.
VerifyRow(row, code, password, tnow) ==
    LET stored_hash == IF row.password_hash # NULL THEN row.password_hash
                       ELSE _DUMMY_BCRYPT_HASH
        stored_code == row.verification_code
        state == row.state
        attempt_count == row.attempt_count
        code_valid == CompareDigest(stored_code, code)
        password_valid == Checkpw(password, stored_hash)
        new_attempt_count == attempt_count + 1
        made == Comparisons(stored_code, stored_hash, code, password)
        Return(value, written) ==
            [result |-> value, row |-> written, ops |-> Returning(made, value)]
    IN  IF RowIsLocked(state) THEN Return("LOCKED", row)
        ELSE IF NotClaimed(state) THEN Return("NOT_FOUND", row)
        ELSE IF ~TtlSql(row, tnow) THEN Return("EXPIRED", ExpireSql(row))
        ELSE IF AttemptsExhausted(attempt_count) THEN Return("LOCKED", row)
        ELSE IF CredentialsRejected(code_valid, password_valid)
             THEN IF LockoutReached(new_attempt_count)
                  THEN Return("LOCKED", LockSql(row))
                  ELSE Return("INVALID_CODE", IncrementSql(row))
        ELSE Return("SUCCESS", ActivateSql(row, tnow))

\* Mutant: a missing row is answered before any comparison is made.
VerifyNoRow_EarlyReturn(code, password) ==
    [result |-> "NOT_FOUND", ops |-> Returning(<<>>, "NOT_FOUND")]

\* Mutant: a missing row is answered by what the comparisons against the
\* dummy values gave.
VerifyNoRow_TrustsComparisons(code, password) ==
    LET stored_hash == _DUMMY_BCRYPT_HASH
        stored_code == DummyCode
        code_valid == CompareDigest(stored_code, code)
        password_valid == Checkpw(password, stored_hash)
        made == Comparisons(stored_code, stored_hash, code, password)
        value == IF code_valid /\ password_valid THEN "SUCCESS" ELSE "NOT_FOUND"
    IN  [result |-> value, ops |-> Returning(made, value)]

\* row is None: both comparisons run against the dummy values, then NOT_FOUND.
VerifyNoRow(code, password) ==
    LET stored_hash == _DUMMY_BCRYPT_HASH
        stored_code == DummyCode
        code_valid == CompareDigest(stored_code, code)
        password_valid == Checkpw(password, stored_hash)
        made == Comparisons(stored_code, stored_hash, code, password)
    IN  [result |-> "NOT_FOUND", ops |-> Returning(made, "NOT_FOUND")]

(* ------------------------------ Init ----------------------------------- *)
\* No request is running in the API and service layer.
NoRequest ==
    [pc |-> "idle", n |-> 0, op |-> "none",
     email |-> <<>>, password |-> "", code |-> "",
     repo |-> <<>>, sent |-> <<>>,
     returned |-> <<>>, raised |-> "", verify_result |-> "none",
     http |-> [status |-> 0, detail |-> "", email |-> <<>>],
     last |-> [email |-> <<>>, raised |-> ""]]

Idle ==
    /\ rowLock = [e \in AllEmails |-> 0]
    /\ pc = [p \in Procs |-> "idle"]
    /\ call = [p \in Procs |-> NoCall]
    /\ txNow = [p \in Procs |-> 0]
    /\ ops = [p \in Procs |-> <<>>]
    /\ svc = NoRequest
    /\ successes = <<>>
    /\ wr = [p \in Procs |-> {}]
    /\ result = [p \in Procs |-> "none"]

Init ==
    /\ registrations = {}
    /\ registrations0 = {}
    /\ now = 0
    /\ Idle

(* --------------------------- claim_email ------------------------------- *)
\* The service calls claim_email; the connection sends the statement, which
\* opens the transaction.
ClaimBeginOn(p, E) ==
    /\ pc[p] \in {"idle", "done"}
    /\ \E e \in E, a \in ClaimArgs :
         call' = [call EXCEPT ![p] = [op |-> "claim", email |-> e, code |-> a[2],
                                      password |-> "", password_hash |-> a[1]]]
    /\ pc' = [pc EXCEPT ![p] = "claim_begun"]
    /\ txNow' = [txNow EXCEPT ![p] = now]
    /\ result' = [result EXCEPT ![p] = "none"]
    /\ UNCHANGED <<registrations, rowLock, now, wr, registrations0, ops, svc, successes>>

ClaimBegin(p) == ClaimBeginOn(p, Emails)

\* Mutant: the upsert does not wait for a transaction that holds the row or
\* has an uncommitted insert of the same key.
ClaimExecute_NoWait(p) ==
    /\ pc[p] = "claim_begun"
    /\ LET c == call[p]
           out == ClaimSql(registrations, c.email, c.password_hash, c.code, txNow[p])
       IN  /\ wr' = [wr EXCEPT ![p] = out.rows]
           /\ result' = [result EXCEPT ![p] = IF out.rowcount = 1 THEN "true" ELSE "false"]
    /\ rowLock' = [rowLock EXCEPT ![call[p].email] = p]
    /\ pc' = [pc EXCEPT ![p] = "claim_executed"]
    /\ UNCHANGED <<registrations, now, call, txNow, registrations0, ops, svc, successes>>

\* cursor.execute(sql, ...): waits while another transaction holds the row
\* (or its uncommitted insert of the same key), then runs the upsert.
ClaimExecute(p) ==
    /\ pc[p] = "claim_begun"
    /\ rowLock[call[p].email] = 0
    /\ LET c == call[p]
           out == ClaimSql(registrations, c.email, c.password_hash, c.code, txNow[p])
       IN  /\ wr' = [wr EXCEPT ![p] = out.rows]
           /\ result' = [result EXCEPT ![p] = IF out.rowcount = 1 THEN "true" ELSE "false"]
    /\ rowLock' = [rowLock EXCEPT ![call[p].email] = p]
    /\ pc' = [pc EXCEPT ![p] = "claim_executed"]
    /\ UNCHANGED <<registrations, now, call, txNow, registrations0, ops, svc, successes>>

\* Mutant: the UPDATE is not restricted to the email of the call.
Replaced_AnyEmail(p) ==
    {row \in registrations :
        IF call[p].op = "claim" THEN ClaimConflictWhere(row)
                                ELSE row.state = "CLAIMED"}

\* The row versions the statement of transaction p supersedes: an UPDATE
\* replaces the rows its WHERE matched, an INSERT replaces nothing.
Replaced(p) ==
    {row \in RowsOf(registrations, call[p].email) :
        IF call[p].op = "claim" THEN ClaimConflictWhere(row)
                                ELSE row.state = "CLAIMED"}

\* The rows of the table once transaction p has committed.
Committed(p) ==
    IF wr[p] = {} THEN registrations
    ELSE (registrations \ Replaced(p)) \cup wr[p]

\* Mutant: the commit leaves the row locks of the transaction in place.
ReleasedLocks_KeepsLock(p) == rowLock

ReleasedLocks(p) == [e \in AllEmails |-> IF rowLock[e] = p THEN 0 ELSE rowLock[e]]

\* conn.commit(); return cursor.rowcount == 1
ClaimCommit(p) ==
    /\ pc[p] = "claim_executed"
    /\ registrations' = Committed(p)
    /\ rowLock' = ReleasedLocks(p)
    /\ wr' = [wr EXCEPT ![p] = {}]
    /\ pc' = [pc EXCEPT ![p] = "done"]
    /\ txNow' = [txNow EXCEPT ![p] = 0]
    /\ UNCHANGED <<now, call, result, registrations0, ops, svc, successes>>

(* ------------------------ verify_and_activate -------------------------- *)
\* History: the SUCCESS results returned for the email so far.
SuccessesOf(email) == IF email \in DOMAIN successes THEN successes[email] ELSE 0

\* History after a verification for the email returned value.
Counted(email, value) ==
    IF value = "SUCCESS" /\ SuccessesOf(email) < MaxSuccesses
    THEN [e \in DOMAIN successes \cup {email} |->
              IF e = email THEN SuccessesOf(email) + 1 ELSE successes[e]]
    ELSE successes

VerifyBeginOn(p, E) ==
    /\ pc[p] \in {"idle", "done"}
    /\ \E e \in E, c \in Codes, pw \in Passwords :
         call' = [call EXCEPT ![p] = [op |-> "verify", email |-> e, code |-> c,
                                      password |-> pw, password_hash |-> NULL]]
    /\ pc' = [pc EXCEPT ![p] = "verify_begun"]
    /\ txNow' = [txNow EXCEPT ![p] = now]
    /\ result' = [result EXCEPT ![p] = "none"]
    /\ UNCHANGED <<registrations, rowLock, now, wr, registrations0, ops, svc, successes>>

VerifyBegin(p) == VerifyBeginOn(p, Emails)

\* SELECT ... FOR UPDATE finds no committed row: nothing is locked.
VerifyExecuteNotFound(p) ==
    /\ pc[p] = "verify_begun"
    /\ RowsOf(registrations, call[p].email) = {}
    /\ result' = [result EXCEPT ![p] = VerifyNoRow(call[p].code, call[p].password).result]
    /\ wr' = [wr EXCEPT ![p] = {}]
    /\ ops' = [ops EXCEPT ![p] = VerifyNoRow(call[p].code, call[p].password).ops]
    /\ pc' = [pc EXCEPT ![p] = "verify_executed"]
    /\ UNCHANGED <<registrations, rowLock, now, call, txNow, registrations0, svc, successes>>

\* Mutant: a plain SELECT, which neither waits for the row lock nor takes it.
VerifyExecuteRow_NoForUpdate(p) ==
    /\ pc[p] = "verify_begun"
    /\ RowsOf(registrations, call[p].email) # {}
    /\ LET c == call[p]
           row == RowOf(registrations, c.email)
           out == VerifyRow(row, c.code, c.password, txNow[p])
       IN  /\ result' = [result EXCEPT ![p] = out.result]
           /\ wr' = [wr EXCEPT ![p] = IF out.row = row THEN {} ELSE {out.row}]
           /\ ops' = [ops EXCEPT ![p] = out.ops]
    /\ pc' = [pc EXCEPT ![p] = "verify_executed"]
    /\ UNCHANGED <<registrations, rowLock, now, call, txNow, registrations0, svc, successes>>

\* SELECT ... FOR UPDATE waits for the row lock, then the comparisons, the
\* TTL query and the UPDATE of the chosen branch run under that lock.
VerifyExecuteRow(p) ==
    /\ pc[p] = "verify_begun"
    /\ RowsOf(registrations, call[p].email) # {}
    /\ rowLock[call[p].email] = 0
    /\ LET c == call[p]
           row == RowOf(registrations, c.email)
           out == VerifyRow(row, c.code, c.password, txNow[p])
       IN  /\ result' = [result EXCEPT ![p] = out.result]
           /\ wr' = [wr EXCEPT ![p] = IF out.row = row THEN {} ELSE {out.row}]
           /\ ops' = [ops EXCEPT ![p] = out.ops]
    /\ rowLock' = [rowLock EXCEPT ![call[p].email] = p]
    /\ pc' = [pc EXCEPT ![p] = "verify_executed"]
    /\ UNCHANGED <<registrations, now, call, txNow, registrations0, svc, successes>>

\* conn.commit(); return VerifyResult
VerifyCommit(p) ==
    /\ pc[p] = "verify_executed"
    /\ registrations' = Committed(p)
    /\ rowLock' = ReleasedLocks(p)
    /\ wr' = [wr EXCEPT ![p] = {}]
    /\ ops' = [ops EXCEPT ![p] = <<>>]
    /\ pc' = [pc EXCEPT ![p] = "done"]
    /\ txNow' = [txNow EXCEPT ![p] = 0]
    /\ successes' = Counted(call[p].email, result[p])
    /\ UNCHANGED <<now, call, result, registrations0, svc>>

(* ------------------------------ clock --------------------------------- *)
\* The store's clock advances.
Tick ==
    /\ \E t \in Instants : t > now /\ now' = t
    /\ UNCHANGED <<registrations, rowLock, pc, call, txNow, wr, result, registrations0, ops, svc, successes>>

Next ==
    \/ \E p \in Procs : ClaimBegin(p)
    \/ \E p \in Procs : ClaimExecute(p)
    \/ \E p \in Procs : ClaimCommit(p)
    \/ \E p \in Procs : VerifyBegin(p)
    \/ \E p \in Procs : VerifyExecuteNotFound(p)
    \/ \E p \in Procs : VerifyExecuteRow(p)
    \/ \E p \in Procs : VerifyCommit(p)
    \/ Tick

Spec == Init /\ [][Next]_vars

(* ------------------- runs of one call per connection ------------------- *)
\* Rows a run of Spec leaves in the table at clock reading t (each is
\* reachable from the empty table with every connection between calls).
SampleRows(t) ==
    LET a == <<Hashpw("pw1", "salt1"), "1234">>
        claimed == InsertedRow("a@x.com", a[1], a[2], 0)
    IN  {[claimed EXCEPT !.attempt_count = k] : k \in 0..(MaxAttempts - 1)}
        \cup {[claimed EXCEPT !.state = "LOCKED", !.attempt_count = MaxAttempts,
                              !.password_hash = NULL]}
        \cup {[claimed EXCEPT !.state = "ACTIVE", !.activated_at = 0]}
        \cup {[claimed EXCEPT !.state = "EXPIRED", !.attempt_count = k,
                              !.password_hash = NULL] :
                k \in {j \in 0..(MaxAttempts - 1) : t >= TTL}}

\* The table holds nothing or one such row; every connection is idle.
RaceInit ==
    /\ now \in Instants
    /\ registrations \in {{}} \cup {{r} : r \in SampleRows(now)}
    /\ registrations0 = registrations
    /\ Idle

\* Every connection issues at most one call.
RaceNext ==
    \/ \E p \in Procs : pc[p] = "idle" /\ ClaimBegin(p)
    \/ \E p \in Procs : ClaimExecute(p)
    \/ \E p \in Procs : ClaimCommit(p)
    \/ \E p \in Procs : pc[p] = "idle" /\ VerifyBegin(p)
    \/ \E p \in Procs : VerifyExecuteNotFound(p)
    \/ \E p \in Procs : VerifyExecuteRow(p)
    \/ \E p \in Procs : VerifyCommit(p)
    \/ Tick

RaceSpec == RaceInit /\ [][RaceNext]_vars

(* -------------- calls on the same and on different emails -------------- *)
\* Every connection issues at most one call, on any of the emails.
MultiNext ==
    \/ \E p \in Procs : pc[p] = "idle" /\ ClaimBeginOn(p, AllEmails)
    \/ \E p \in Procs : ClaimExecute(p)
    \/ \E p \in Procs : ClaimCommit(p)
    \/ \E p \in Procs : pc[p] = "idle" /\ VerifyBeginOn(p, AllEmails)
    \/ \E p \in Procs : VerifyExecuteNotFound(p)
    \/ \E p \in Procs : VerifyExecuteRow(p)
    \/ \E p \in Procs : VerifyCommit(p)
    \/ Tick

MultiSpec == RaceInit /\ [][MultiNext]_vars

\* The thread of a call runs on: a statement whose row lock is free is
\* served, and the commit that follows it in the code is issued. Nothing is
\* asked of the callers (a call need not be made) nor of the clock.
Fairness ==
    \A p \in Procs :
        /\ WF_vars(ClaimExecute(p))
        /\ WF_vars(ClaimCommit(p))
        /\ WF_vars(VerifyExecuteNotFound(p))
        /\ WF_vars(VerifyExecuteRow(p))
        /\ WF_vars(VerifyCommit(p))

FairSpec == RaceInit /\ [][MultiNext]_vars /\ Fairness

(* ----------------------- rows written directly ------------------------ *)
\* Rows no call of the repository leaves behind, written by a direct
\* INSERT: state CLAIMED with attempt_count already at or past the limit.
DirectRows(t) ==
    LET claimed == InsertedRow("a@x.com", Hashpw("pw1", "salt1"), "1234", 0)
    IN  {[claimed EXCEPT !.attempt_count = k] : k \in MaxAttempts..(MaxAttempts + 1)}

\* The table holds nothing, a row the repository leaves, or a row written
\* directly; every connection is idle.
DirectInit ==
    /\ now \in Instants
    /\ registrations \in {{}} \cup {{r} : r \in SampleRows(now) \cup DirectRows(now)}
    /\ registrations0 = registrations
    /\ Idle

DirectSpec == DirectInit /\ [][RaceNext]_vars

(* ------------------------ sequential execution ------------------------ *)
\* One call run alone, from its first statement to its commit, on the
\* table it finds, with t the NOW() of its transaction: the table it leaves
\* and the value it returns.
SeqStep(table, c, t) ==
    IF c.op = "claim"
    THEN LET out == ClaimSql(table, c.email, c.password_hash, c.code, t)
             old == {r \in RowsOf(table, c.email) : ClaimConflictWhere(r)}
         IN  [table |-> IF out.rows = {} THEN table ELSE (table \ old) \cup out.rows,
              result |-> IF out.rowcount = 1 THEN "true" ELSE "false"]
    ELSE IF RowsOf(table, c.email) = {}
    THEN [table |-> table, result |-> VerifyNoRow(c.code, c.password).result]
    ELSE LET row == RowOf(table, c.email)
             out == VerifyRow(row, c.code, c.password, t)
         IN  [table |-> (table \ {row}) \cup {out.row}, result |-> out.result]

\* The orders in which the connections of D can run one after another.
Orders(D) ==
    {o \in [1..Cardinality(D) -> D] : \A i, j \in DOMAIN o : o[i] = o[j] => i = j}

\* The table after the first k calls of the order have run one after
\* another from the table the run started with, and what the k-th returns.
RECURSIVE SeqTable(_, _, _)
SeqTable(order, tau, k) ==
    IF k = 0 THEN registrations0
    ELSE SeqStep(SeqTable(order, tau, k - 1), call[order[k]], tau[order[k]]).table

SeqResult(order, tau, k) ==
    SeqStep(SeqTable(order, tau, k - 1), call[order[k]], tau[order[k]]).result

(* ----------------------- service and API layer ------------------------ *)
\* Emails as the service receives them: strings of up to MaxEmailLen
\* characters, written as sequences so that they can be trimmed and folded.
MaxEmailLen == 3
MaxRequests == 2
Chars == {" ", "a", "A"}
Whitespace == {" "}
RawEmails == UNION {[1..n -> Chars] : n \in 1..MaxEmailLen}

\* str.strip()
RECURSIVE LStrip(_)
LStrip(s) == IF s # <<>> /\ Head(s) \in Whitespace THEN LStrip(Tail(s)) ELSE s
RECURSIVE RStrip(_)
RStrip(s) ==
    IF s # <<>> /\ s[Len(s)] \in Whitespace THEN RStrip(SubSeq(s, 1, Len(s) - 1)) ELSE s
Strip(s) == RStrip(LStrip(s))

\* str.lower()
LowerChar(ch) == IF ch = "A" THEN "a" ELSE ch
Lower(s) == IF s = <<>> THEN <<>> ELSE [i \in 1..Len(s) |-> LowerChar(s[i])]

\* Mutant: the email is trimmed but its case is kept.
_normalize_email_StripOnly(email) == Strip(email)

\* return email.strip().lower()
_normalize_email(email) == Lower(Strip(email))

\* credentials.username.strip().lower()
get_basic_auth_credentials(username) == Lower(Strip(username))

\* The responses of the two endpoints.
Created(email) == [status |-> 201, detail |-> "Verification code sent", email |-> email]
Conflict == [status |-> 409, detail |-> "Registration failed", email |-> <<>>]
Activated(email) == [status |-> 200, detail |-> "Account activated", email |-> email]
Unauthorized == [status |-> 401, detail |-> "Invalid credentials or code", email |-> <<>>]
ServerError == [status |-> 500, detail |-> "Internal Server Error", email |-> <<>>]

\* Mutant: a locked account is reported as such.
ActivateResponse_TellsLocked(verify_result, email) ==
    IF verify_result = "SUCCESS" THEN Activated(email)
    ELSE IF verify_result = "LOCKED"
         THEN [status |-> 401, detail |-> "Account locked", email |-> <<>>]
         ELSE Unauthorized

\* if result == VerifyResult.SUCCESS: return ActivateResponse(...)
\* raise HTTPException(status_code=401, detail="Invalid credentials or code")
ActivateResponse(verify_result, email) ==
    IF verify_result = "SUCCESS" THEN Activated(email) ELSE Unauthorized

\* POST /register arrives: service.register(email, password) is called.
\* History: how the request before this one ended: the email of its store
\* call and the exception it raised, if any.
LastOutcome ==
    [email |-> IF svc.repo = <<>> THEN <<>> ELSE svc.repo[Len(svc.repo)].call.email,
     raised |-> svc.raised]

RegisterCall ==
    /\ svc.pc \in {"idle", "returned"}
    /\ svc.n < MaxRequests
    /\ \E email \in RawEmails, password \in Passwords :
         svc' = [NoRequest EXCEPT !.pc = "register_called", !.n = svc.n + 1,
                                  !.op = "register", !.email = email,
                                  !.password = password, !.last = LastOutcome]
    /\ UNCHANGED <<registrations, rowLock, now, pc, call, txNow, wr, result,
                   registrations0, ops, successes>>

\* The store call a register makes after normalizing, hashing and drawing
\* the code.
RegisterClaimCall(email, password, code) ==
    [op |-> "claim", email |-> _normalize_email(email), code |-> code,
     password |-> "", password_hash |-> Hashpw(password, "salt1")]

\* Mutant: an already claimed email is not reported; the code is sent anyway.
RegisterNext_AlwaysSends(claimed) == "claimed"

\* if not claimed: raise EmailAlreadyClaimed(normalized_email)
RegisterNext(claimed) == IF claimed = "true" THEN "claimed" ELSE "refused"

\* normalized_email, password_hash, code are computed and
\* repository.claim_email(normalized_email, password_hash, code) runs.
RegisterClaim ==
    /\ svc.pc = "register_called"
    /\ \E code \in Codes :
         LET c == RegisterClaimCall(svc.email, svc.password, code)
             out == SeqStep(registrations, c, now)
         IN  /\ registrations' = out.table
             /\ svc' = [svc EXCEPT !.pc = RegisterNext(out.result),
                                   !.repo = Append(@, [call |-> c, result |-> out.result])]
    /\ UNCHANGED <<rowLock, now, pc, call, txNow, wr, result, registrations0, ops, successes>>

\* raise EmailAlreadyClaimed(normalized_email); the route answers 409.
RegisterRaise ==
    /\ svc.pc = "refused"
    /\ svc' = [svc EXCEPT !.pc = "returned", !.raised = "EmailAlreadyClaimed",
                          !.http = Conflict]
    /\ UNCHANGED <<registrations, rowLock, now, pc, call, txNow, wr, result,
                   registrations0, ops, successes>>

\* email_sender.send_verification_code(normalized_email, code) is called
\* (svc.sent lists the calls of the sink) and delivers.
RegisterSend ==
    /\ svc.pc = "claimed"
    /\ LET c == svc.repo[Len(svc.repo)].call IN
       svc' = [svc EXCEPT !.pc = "sent",
                          !.sent = Append(@, [email |-> c.email, code |-> c.code])]
    /\ UNCHANGED <<registrations, rowLock, now, pc, call, txNow, wr, result,
                   registrations0, ops, successes>>

\* Mutant: when the sink raises the claim is undone.
RegisterSendRaises_UndoesClaim ==
    /\ svc.pc = "claimed"
    /\ LET c == svc.repo[Len(svc.repo)].call IN
       /\ svc' = [svc EXCEPT !.pc = "returned", !.raised = "SenderError",
                             !.sent = Append(@, [email |-> c.email, code |-> c.code]),
                             !.http = ServerError]
       /\ registrations' = registrations \ RowsOf(registrations, c.email)
    /\ UNCHANGED <<rowLock, now, pc, call, txNow, wr, result,
                   registrations0, ops, successes>>

\* email_sender.send_verification_code raises: the exception leaves
\* register and the route.
RegisterSendRaises ==
    /\ svc.pc = "claimed"
    /\ LET c == svc.repo[Len(svc.repo)].call IN
       svc' = [svc EXCEPT !.pc = "returned", !.raised = "SenderError",
                          !.sent = Append(@, [email |-> c.email, code |-> c.code]),
                          !.http = ServerError]
    /\ UNCHANGED <<registrations, rowLock, now, pc, call, txNow, wr, result,
                   registrations0, ops, successes>>

\* return normalized_email; the route answers 201.
RegisterReturn ==
    /\ svc.pc = "sent"
    /\ LET normalized_email == svc.repo[Len(svc.repo)].call.email IN
       svc' = [svc EXCEPT !.pc = "returned", !.returned = normalized_email,
                          !.http = Created(normalized_email)]
    /\ UNCHANGED <<registrations, rowLock, now, pc, call, txNow, wr, result,
                   registrations0, ops, successes>>

\* POST /activate arrives with BASIC AUTH credentials and a code.
ActivateCall ==
    /\ svc.pc \in {"idle", "returned"}
    /\ svc.n < MaxRequests
    /\ \E username \in RawEmails, password \in Passwords, code \in Codes :
         svc' = [NoRequest EXCEPT !.pc = "activate_called", !.n = svc.n + 1,
                                  !.op = "activate", !.email = username,
                                  !.password = password, !.code = code,
                                  !.last = LastOutcome]
    /\ UNCHANGED <<registrations, rowLock, now, pc, call, txNow, wr, result,
                   registrations0, ops, successes>>

\* service.verify_and_activate(email, code, password) normalizes the email
\* of the credentials and delegates to the repository.
ActivateVerify ==
    /\ svc.pc = "activate_called"
    /\ LET email == get_basic_auth_credentials(svc.email)
           c == [op |-> "verify", email |-> _normalize_email(email),
                 code |-> svc.code, password |-> svc.password,
                 password_hash |-> NULL]
           out == SeqStep(registrations, c, now)
       IN  /\ registrations' = out.table
           /\ svc' = [svc EXCEPT !.pc = "verified",
                                 !.repo = Append(@, [call |-> c, result |-> out.result]),
                                 !.verify_result = out.result]
           /\ successes' = Counted(c.email, out.result)
    /\ UNCHANGED <<rowLock, now, pc, call, txNow, wr, result, registrations0, ops>>

\* The route answers 200 on SUCCESS and 401 otherwise.
ActivateRespond ==
    /\ svc.pc = "verified"
    /\ svc' = [svc EXCEPT !.pc = "returned", !.returned = <<>>,
                          !.http = ActivateResponse(svc.verify_result,
                                       get_basic_auth_credentials(svc.email))]
    /\ UNCHANGED <<registrations, rowLock, now, pc, call, txNow, wr, result,
                   registrations0, ops, successes>>

\* The table holds nothing or one sample row of a normalized email, at any
\* clock reading; no request is running.
ServiceInit ==
    /\ now \in Instants
    /\ registrations \in
          {{}} \cup {{[r EXCEPT !.email = <<"a">>]} : r \in SampleRows(now)}
    /\ registrations0 = registrations
    /\ Idle

\* Requests are served one after another; each store call runs alone.
ServiceNext ==
    \/ RegisterCall
    \/ RegisterClaim
    \/ RegisterRaise
    \/ RegisterSend
    \/ RegisterSendRaises
    \/ RegisterReturn
    \/ ActivateCall
    \/ ActivateVerify
    \/ ActivateRespond

ServiceSpec == ServiceInit /\ [][ServiceNext]_vars

(* ======================================================================= *)
(*                               Properties                                *)
(* ======================================================================= *)
Executed(p) == pc[p] \in {"claim_executed", "verify_executed", "done"}
ResultsOf(v) == {p \in Procs : result[p] = v}

\* Every connection has issued claim_email for e and the statement has run;
\* e had no row when the connections started.
C1_AllClaimFresh(e) ==
    /\ RowsOf(registrations0, e) = {}
    /\ \A p \in Procs : call[p].op = "claim" /\ call[p].email = e /\ Executed(p)

\* C1: when all N connections call claim_email for the same email that has no
\* row, in whatever order their steps interleave, exactly one call returns
\* true and every other returns false; once the winner has committed, the
\* email has exactly one row, CLAIMED with attempt_count 0 and the
\* password_hash and verification_code the winner passed.
C1_ExactlyOneClaimWins ==
    \A e \in Emails : C1_AllClaimFresh(e) =>
        /\ Cardinality(ResultsOf("true")) = 1
        /\ ResultsOf("true") \cup ResultsOf("false") = Procs
        /\ \A w \in ResultsOf("true") : pc[w] = "done" =>
              \E r \in registrations :
                 /\ RowsOf(registrations, e) = {r}
                 /\ r.state = "CLAIMED"
                 /\ r.attempt_count = 0
                 /\ r.password_hash = call[w].password_hash
                 /\ r.verification_code = call[w].code

\* Two claims overlapped: q was issued before the winner p (its NOW() is
\* earlier than the created_at p wrote), ran after p committed, and lost.
C1_Witness ==
    \E e \in Emails, p, q \in Procs :
        /\ C1_AllClaimFresh(e)
        /\ pc[p] = "done" /\ result[p] = "true"
        /\ pc[q] = "claim_executed" /\ result[q] = "false"
        /\ call[p].password_hash # call[q].password_hash
        /\ txNow[q] < RowOf(registrations, e).created_at

\* Every connection has issued verify_and_activate with the code and the
\* password of the CLAIMED row r0 the run started with, r0 has attempts left
\* and is within its TTL, and the transaction has executed.
C2_AllVerifyCorrect(r0) ==
    /\ r0.state = "CLAIMED"
    /\ r0.attempt_count < MaxAttempts
    /\ r0.created_at > now - TTL
    /\ \A p \in Procs :
          /\ call[p].op = "verify" /\ call[p].email = r0.email /\ Executed(p)
          /\ call[p].code = r0.verification_code
          /\ Checkpw(call[p].password, r0.password_hash)

\* C2: when all N connections call verify_and_activate with the correct code
\* and password on one CLAIMED row within its TTL and with attempt_count < 3,
\* in whatever order their steps interleave, exactly one call returns SUCCESS
\* and every other returns NOT_FOUND; once the winner has committed the row
\* is ACTIVE with activated_at set.
C2_ExactlyOneActivation ==
    \A r0 \in registrations0 : C2_AllVerifyCorrect(r0) =>
        /\ Cardinality(ResultsOf("SUCCESS")) = 1
        /\ ResultsOf("SUCCESS") \cup ResultsOf("NOT_FOUND") = Procs
        /\ \A w \in ResultsOf("SUCCESS") : pc[w] = "done" =>
              \E r \in registrations :
                 /\ RowsOf(registrations, r0.email) = {r}
                 /\ r.state = "ACTIVE"
                 /\ r.activated_at # NoTime
                 /\ r = [r0 EXCEPT !.state = "ACTIVE", !.activated_at = r.activated_at]

\* Two verifications overlapped: q began before the winner p (its NOW() is
\* earlier than the activated_at p wrote), ran after p committed, and got
\* NOT_FOUND.
C2_Witness ==
    \E r0 \in registrations0, p, q \in Procs :
        /\ C2_AllVerifyCorrect(r0)
        /\ pc[p] = "done" /\ result[p] = "SUCCESS"
        /\ pc[q] = "verify_executed" /\ result[q] = "NOT_FOUND"
        /\ txNow[q] < RowOf(registrations, r0.email).activated_at

(* ---- one call seen while its transaction holds the row lock ------------ *)
\* Connection p has executed verify_and_activate on an existing row and has
\* not committed yet: the table still shows the row as p read it.
VerifyHolds(p) == pc[p] = "verify_executed" /\ rowLock[call[p].email] = p
Pre(p) == RowOf(registrations, call[p].email)
Post(p) == IF wr[p] = {} THEN Pre(p) ELSE CHOOSE r \in wr[p] : TRUE
CodeOk(p) == call[p].code = Pre(p).verification_code
PasswordOk(p) ==
    Pre(p).password_hash # NULL /\ Checkpw(call[p].password, Pre(p).password_hash)
Age(p) == txNow[p] - Pre(p).created_at

\* The step is the commit (and return) of a call of connection p.
ClaimReturns(p) == pc[p] = "claim_executed" /\ pc'[p] = "done"
VerifyReturns(p) == pc[p] = "verify_executed" /\ pc'[p] = "done"

\* C3: no ghost credentials: in every reachable state every committed row
\* whose state is EXPIRED or LOCKED has password_hash NULL.
C3_NoGhostCredentials ==
    \A r \in registrations :
        r.state \in {"EXPIRED", "LOCKED"} => r.password_hash = NULL

\* Both purges have happened to one email: a verification expired its row,
\* the row was claimed again, and three failures have now locked it.
C3_Witness ==
    \E r \in registrations, p, q \in Procs :
        /\ r.state = "LOCKED" /\ r.password_hash = NULL
        /\ pc[q] = "done" /\ call[q].op = "verify" /\ result[q] = "EXPIRED"
        /\ pc[p] = "done" /\ call[p].op = "verify" /\ result[p] = "LOCKED"
        /\ call[p].email = r.email /\ call[q].email = r.email

\* C4: on a CLAIMED row within its TTL, a verify_and_activate call with a
\* wrong code, a wrong password or both returns INVALID_CODE and leaves
\* attempt_count 1 when it finds 0, returns INVALID_CODE and leaves 2 when it
\* finds 1 (the row staying CLAIMED, nothing else changed), and returns
\* LOCKED when it finds 2, leaving state LOCKED, attempt_count 3 and
\* password_hash NULL; so three consecutive failures from attempt_count 0
\* give INVALID_CODE, INVALID_CODE, LOCKED.  A committed LOCKED row always
\* has attempt_count 3 and password_hash NULL.
C4_ThreeFailuresLock ==
    /\ \A p \in Procs :
          ( /\ VerifyHolds(p)
            /\ Pre(p).state = "CLAIMED"
            /\ Age(p) < TTL
            /\ ~(CodeOk(p) /\ PasswordOk(p)) ) =>
          /\ Pre(p).attempt_count \in {0, 1} =>
                /\ result[p] = "INVALID_CODE"
                /\ Post(p) = [Pre(p) EXCEPT !.attempt_count = Pre(p).attempt_count + 1]
          /\ Pre(p).attempt_count = 2 =>
                /\ result[p] = "LOCKED"
                /\ Post(p) = [Pre(p) EXCEPT !.state = "LOCKED", !.attempt_count = 3,
                                            !.password_hash = NULL]
    /\ \A r \in registrations :
          r.state = "LOCKED" => r.attempt_count = 3 /\ r.password_hash = NULL

\* The third failure, by a call whose code is right and whose password is
\* wrong, on a row that two earlier failures left at attempt_count 2.
C4_Witness ==
    \E p \in Procs :
        /\ VerifyHolds(p)
        /\ Pre(p).state = "CLAIMED" /\ Pre(p).attempt_count = 2
        /\ CodeOk(p) /\ ~PasswordOk(p)
        /\ result[p] = "LOCKED"
        /\ Post(p).state = "LOCKED" /\ Post(p).attempt_count = 3

\* C5: a LOCKED row has attempt_count 3 and password_hash NULL; every
\* verify_and_activate call that has read it (under the row lock) returns
\* LOCKED and leaves the table as it was, and the row changes only by the
\* commit of a claim_email call that returns true, which makes it CLAIMED.
C5_LockedStaysLocked ==
    [][\A r \in registrations : r.state = "LOCKED" =>
          /\ r.attempt_count = 3 /\ r.password_hash = NULL
          /\ \A p \in Procs : (VerifyReturns(p) /\ rowLock[r.email] = p) =>
                result'[p] = "LOCKED" /\ registrations' = registrations
          /\ \/ r \in registrations'
             \/ \E p \in Procs :
                  /\ ClaimReturns(p) /\ call[p].email = r.email
                  /\ result'[p] = "true"
                  /\ \E n \in registrations' :
                        /\ RowsOf(registrations', r.email) = {n}
                        /\ n.state = "CLAIMED"]_vars

\* A call with the code and the password the row was claimed with has run on
\* the LOCKED row and returns LOCKED without writing.
C5_Witness ==
    \E p \in Procs :
        /\ VerifyHolds(p)
        /\ Pre(p).state = "LOCKED" /\ Pre(p).attempt_count = 3
        /\ Pre(p).password_hash = NULL
        /\ \E a \in ClaimArgs :
              a[2] = Pre(p).verification_code /\ a[2] = call[p].code
              /\ Checkpw(call[p].password, a[1])
        /\ result[p] = "LOCKED" /\ wr[p] = {}

\* C6 as stated: a verify_and_activate call on a row that is already EXPIRED
\* returns EXPIRED again and writes nothing.
C6_ReverifyReturnsExpired ==
    \A p \in Procs :
        (VerifyHolds(p) /\ Pre(p).state = "EXPIRED") =>
            result[p] = "EXPIRED" /\ wr[p] = {}

\* C6 (amended): a verify_and_activate call on a row that is already EXPIRED,
\* with any code and password, returns NOT_FOUND and writes nothing.
C6_ReverifyReturnsNotFound ==
    \A p \in Procs :
        (VerifyHolds(p) /\ Pre(p).state = "EXPIRED") =>
            result[p] = "NOT_FOUND" /\ wr[p] = {}

\* The other connection's call expired the row and returned EXPIRED; this
\* call ran on the EXPIRED row afterwards.
C6_Witness ==
    \E p, q \in Procs :
        /\ VerifyHolds(p) /\ Pre(p).state = "EXPIRED"
        /\ result[p] = "NOT_FOUND"
        /\ q # p /\ pc[q] = "done" /\ call[q].op = "verify" /\ result[q] = "EXPIRED"

\* C7: a verify_and_activate call with the correct code and password on a
\* CLAIMED row with attempt_count < 3 returns SUCCESS and makes the row
\* ACTIVE when created_at is 59 s before the NOW() of the call, and returns
\* EXPIRED, setting state EXPIRED and password_hash NULL, when created_at is
\* 61 s before it.
C7_TtlBoundary ==
    \A p \in Procs :
        ( /\ VerifyHolds(p)
          /\ Pre(p).state = "CLAIMED"
          /\ Pre(p).attempt_count < 3
          /\ CodeOk(p) /\ PasswordOk(p) ) =>
        /\ Age(p) = 59 =>
              /\ result[p] = "SUCCESS"
              /\ Post(p) = [Pre(p) EXCEPT !.state = "ACTIVE", !.activated_at = txNow[p]]
        /\ Age(p) = 61 =>
              /\ result[p] = "EXPIRED"
              /\ Post(p) = [Pre(p) EXCEPT !.state = "EXPIRED", !.password_hash = NULL]

\* A correct call made 61 s after the claim has expired the row.
C7_Witness ==
    \E p \in Procs :
        /\ VerifyHolds(p)
        /\ Pre(p).state = "CLAIMED" /\ Pre(p).attempt_count < 3
        /\ CodeOk(p) /\ PasswordOk(p)
        /\ Age(p) = 61
        /\ result[p] = "EXPIRED"
        /\ Post(p).state = "EXPIRED" /\ Post(p).password_hash = NULL

\* C8: a claim_email(email, hash, code) call returns true exactly when, as
\* it commits its write, the email has no row or its row is EXPIRED or
\* LOCKED; and when it returns true the email's row is then exactly CLAIMED,
\* hash, code, attempt_count 0, created_at = the NOW() of the call,
\* activated_at NULL.
C8_ClaimResult ==
    [][\A p \in Procs : ClaimReturns(p) =>
          LET e == call[p].email
              old == RowsOf(registrations, e)
          IN  /\ result'[p] = "true" <=>
                    (old = {} \/ \E r \in old : r.state \in {"EXPIRED", "LOCKED"})
              /\ result'[p] = "true" =>
                    RowsOf(registrations', e) =
                        {[email |-> e, password_hash |-> call[p].password_hash,
                          verification_code |-> call[p].code, state |-> "CLAIMED",
                          attempt_count |-> 0, created_at |-> txNow[p],
                          activated_at |-> NoTime]}]_vars

\* A claim has returned true by overwriting the row that the other
\* connection's verification had found or left LOCKED.
C8_Witness ==
    \E p, q \in Procs, r \in registrations :
        /\ pc[p] = "done" /\ call[p].op = "claim" /\ result[p] = "true"
        /\ r.email = call[p].email
        /\ r.state = "CLAIMED" /\ r.attempt_count = 0
        /\ r.password_hash = call[p].password_hash
        /\ r.verification_code = call[p].code
        /\ q # p /\ pc[q] = "done" /\ call[q].op = "verify" /\ result[q] = "LOCKED"
        /\ call[q].email = r.email

\* C9: a claim_email call on an email whose row is CLAIMED or ACTIVE returns
\* false, for either state, and leaves the table exactly as it was.
C9_ClaimRefused ==
    [][\A p \in Procs : ClaimReturns(p) =>
          \A r \in RowsOf(registrations, call[p].email) :
              r.state \in {"CLAIMED", "ACTIVE"} =>
                  result'[p] = "false" /\ registrations' = registrations]_vars

\* A claim with other credentials has been refused on an ACTIVE row, which
\* still carries the values of its activation.
C9_Witness ==
    \E p \in Procs, r \in registrations :
        /\ pc[p] = "done" /\ call[p].op = "claim" /\ result[p] = "false"
        /\ r.email = call[p].email
        /\ r.state = "ACTIVE" /\ r.activated_at # NoTime
        /\ r.password_hash # call[p].password_hash

\* C10: in every step the state of an existing row stays the same, or goes
\* CLAIMED -> ACTIVE, CLAIMED -> EXPIRED or CLAIMED -> LOCKED by the commit of
\* a verify_and_activate call, or EXPIRED -> CLAIMED or LOCKED -> CLAIMED by
\* the commit of a claim_email call that returns true and reinitialises the
\* row; the row is never removed.
C10_ForwardOnly ==
    [][\A r \in registrations :
          \E n \in registrations' :
             /\ RowsOf(registrations', r.email) = {n}
             /\ \/ n.state = r.state
                \/ /\ r.state = "CLAIMED"
                   /\ n.state \in {"ACTIVE", "EXPIRED", "LOCKED"}
                   /\ \E p \in Procs : VerifyReturns(p) /\ call[p].email = r.email
                \/ /\ r.state \in {"EXPIRED", "LOCKED"}
                   /\ n.state = "CLAIMED"
                   /\ \E p \in Procs :
                        /\ ClaimReturns(p) /\ call[p].email = r.email
                        /\ result'[p] = "true"
                        /\ n = InsertedRow(r.email, call[p].password_hash,
                                           call[p].code, txNow[p])]_vars

\* The row expired through one connection's verify_and_activate and is
\* CLAIMED again through the other connection's claim_email.
C10_Witness ==
    \E p, q \in Procs, r \in registrations :
        /\ p # q
        /\ pc[q] = "done" /\ call[q].op = "verify" /\ result[q] = "EXPIRED"
        /\ pc[p] = "done" /\ call[p].op = "claim" /\ result[p] = "true"
        /\ r.email = call[p].email /\ r.email = call[q].email
        /\ r.state = "CLAIMED"

(* C11: in every reachable state the table holds at most one record per
   email, and a record, once created, is never removed: every step leaves
   exactly one record for each email that had one. *)
C11_OneRecordPerEmail ==
    [][\A e \in Emails :
          /\ Cardinality(RowsOf(registrations, e)) <= 1
          /\ Cardinality(RowsOf(registrations', e)) <= 1
          /\ RowsOf(registrations, e) # {} => RowsOf(registrations', e) # {}]_vars

\* Two connections have claimed the same email, one won and one was
\* refused, and the table holds the one record.
C11_Witness ==
    \E p, q \in Procs, e \in Emails :
        /\ p # q
        /\ pc[p] = "done" /\ call[p].op = "claim" /\ call[p].email = e
        /\ pc[q] = "done" /\ call[q].op = "claim" /\ call[q].email = e
        /\ result[p] = "true" /\ result[q] = "false"
        /\ Cardinality(RowsOf(registrations, e)) = 1

(* C12: every CLAIMED record has a password_hash, a verification_code and
   no activated_at. *)
C12_ClaimedRecordShape ==
    \A r \in registrations :
        r.state = "CLAIMED" =>
            /\ r.password_hash # NULL
            /\ r.verification_code \in Codes
            /\ r.activated_at = NoTime

\* A record claimed again after an expiry, with one failed attempt since.
C12_Witness ==
    \E r \in registrations, q \in Procs :
        /\ r.state = "CLAIMED" /\ r.attempt_count = 1
        /\ r.password_hash # NULL /\ r.activated_at = NoTime
        /\ pc[q] = "done" /\ call[q].op = "verify" /\ result[q] = "EXPIRED"

\* The step is the return of a verification that read the row of e under
\* its lock, found the code or the password wrong and returns res.
FailingVerifyReturns(e, res) ==
    \E p \in Procs :
        /\ VerifyReturns(p) /\ call[p].email = e /\ rowLock[e] = p
        /\ ~(CodeOk(p) /\ PasswordOk(p))
        /\ result[p] = res

\* activated_at is set on ACTIVE rows and on no others.
ActivatedAtShape(r) ==
    IF r.state = "ACTIVE"
    THEN r.activated_at # NoTime /\ r.password_hash # NULL
    ELSE r.activated_at = NoTime

(* C13: an ACTIVE record has activated_at set and still holds the
   password_hash it was claimed with; activated_at is NULL in every other
   state; it is set exactly once, by the step that makes the record ACTIVE
   (which changes nothing else but the state), and an ACTIVE record never
   changes afterwards. *)
C13_ActivatedOnce ==
    [][/\ \A n \in registrations' : ActivatedAtShape(n)
       /\ \A r \in registrations :
            LET n == RowOf(registrations', r.email) IN
            /\ ActivatedAtShape(r)
            /\ r.state = "ACTIVE" => n = r
            /\ (r.state = "CLAIMED" /\ n.state \in {"CLAIMED", "ACTIVE"}) =>
                   /\ n.password_hash = r.password_hash
                   /\ n.created_at = r.created_at
            /\ (r.state # "ACTIVE" /\ n.state = "ACTIVE") =>
                   /\ r.state = "CLAIMED"
                   /\ n = [r EXCEPT !.state = "ACTIVE",
                                    !.activated_at = n.activated_at]]_vars

\* A record activated some time after its claim, and a later verification
\* that found it ACTIVE and left it alone.
C13_Witness ==
    \E r \in registrations, p, q \in Procs :
        /\ r.state = "ACTIVE" /\ r.created_at = 0 /\ r.activated_at >= TTL - 1
        /\ pc[p] = "done" /\ call[p].op = "verify" /\ result[p] = "SUCCESS"
        /\ pc[q] = "done" /\ call[q].op = "verify" /\ result[q] = "NOT_FOUND"
        /\ now > r.activated_at

(* C14: while a record stays CLAIMED its attempt_count never decreases and
   changes only by +1, in the step where a failing verification returns
   INVALID_CODE; activation and expiry leave the count alone; a record
   becomes LOCKED only by a failing verification that raises the count
   from 2 to 3 and returns LOCKED; every claim_email that returns true
   leaves the count at 0. *)
C14_AttemptCount ==
    [][/\ \A r \in registrations :
            LET n == RowOf(registrations', r.email) IN
            /\ (r.state = "CLAIMED" /\ n.state = "CLAIMED") =>
                   \/ n.attempt_count = r.attempt_count
                   \/ /\ n.attempt_count = r.attempt_count + 1
                      /\ FailingVerifyReturns(r.email, "INVALID_CODE")
            /\ (r.state = "CLAIMED" /\ n.state \in {"ACTIVE", "EXPIRED"}) =>
                   n.attempt_count = r.attempt_count
            /\ (r.state # "LOCKED" /\ n.state = "LOCKED") =>
                   /\ r.state = "CLAIMED"
                   /\ r.attempt_count = MaxAttempts - 1
                   /\ n.attempt_count = MaxAttempts
                   /\ FailingVerifyReturns(r.email, "LOCKED")
       /\ \A p \in Procs :
            (ClaimReturns(p) /\ result[p] = "true") =>
                LET n == RowOf(registrations', call[p].email) IN
                n.state = "CLAIMED" /\ n.attempt_count = 0]_vars

\* In the second lifetime of a record a failing verification is about to
\* raise the count from 1 to 2.
C14_Witness ==
    \E p, q \in Procs :
        /\ VerifyHolds(p) /\ Pre(p).state = "CLAIMED" /\ Pre(p).attempt_count = 1
        /\ result[p] = "INVALID_CODE" /\ Post(p).attempt_count = 2
        /\ pc[q] = "done" /\ call[q].op = "verify" /\ result[q] = "EXPIRED"

\* The step in which connection p runs the statements of its verification.
VerifyExecutes(p) == pc[p] = "verify_begun" /\ pc'[p] = "verify_executed"

(* C15: a verification returns NOT_FOUND, whatever code and password it
   carries, when the email has no record and when its record is ACTIVE or
   EXPIRED; it writes nothing, and its return leaves the table as it was
   (no record created, no field changed). *)
C15_NotFound ==
    [][\A p \in Procs :
          /\ VerifyExecutes(p) =>
                LET rows == RowsOf(registrations, call[p].email) IN
                (rows = {} \/ \E r \in rows : r.state \in {"ACTIVE", "EXPIRED"}) =>
                    /\ result'[p] = "NOT_FOUND"
                    /\ wr'[p] = {}
                    /\ registrations' = registrations
          /\ (VerifyReturns(p) /\ result[p] = "NOT_FOUND") =>
                registrations' = registrations]_vars

\* A verification with the right code and the right password has read an
\* ACTIVE record and answers NOT_FOUND.
C15_Witness ==
    \E p \in Procs :
        /\ VerifyHolds(p) /\ Pre(p).state = "ACTIVE"
        /\ CodeOk(p) /\ PasswordOk(p)
        /\ result[p] = "NOT_FOUND" /\ wr[p] = {}

\* What a verification finds wrong or right besides the TTL: the record it
\* locked is CLAIMED with attempts left and the credentials match.
Activatable(row, c) ==
    /\ row.state = "CLAIMED"
    /\ row.attempt_count < MaxAttempts
    /\ c.code = row.verification_code
    /\ row.password_hash # NULL /\ Checkpw(c.password, row.password_hash)

(* C16 as stated: a verification returns SUCCESS iff, at the moment it
   locks the record and decides, the record is CLAIMED, created less than
   60 seconds before the store's clock reading of that moment, has
   attempts left and the credentials match. *)
C16_SuccessIffWithinTtlAtLock ==
    [][\A p \in Procs :
          (VerifyExecutes(p) /\ rowLock'[call[p].email] = p) =>
              LET row == RowOf(registrations, call[p].email) IN
              result'[p] = "SUCCESS" <=>
                  (Activatable(row, call[p]) /\ row.created_at > now - TTL)]_vars

(* C16 amended: a verification returns SUCCESS iff the record it locks is
   CLAIMED, created less than 60 seconds before NOW() -- the store's clock
   at the start of the call's transaction --, has attempts left and the
   credentials match; a call that finds no record never returns SUCCESS;
   on SUCCESS the record becomes ACTIVE with activated_at = NOW(). So no
   call whose transaction starts when the record is past its TTL returns
   SUCCESS, whether or not the record has been moved to EXPIRED. *)
C16_SuccessIffWithinTtlAtNow ==
    [][\A p \in Procs :
          /\ (VerifyExecutes(p) /\ rowLock'[call[p].email] = p) =>
                LET row == RowOf(registrations, call[p].email) IN
                result'[p] = "SUCCESS" <=>
                    (Activatable(row, call[p]) /\ row.created_at > txNow[p] - TTL)
          /\ (VerifyExecutes(p) /\ rowLock'[call[p].email] # p) =>
                result'[p] # "SUCCESS"
          /\ (VerifyReturns(p) /\ result[p] = "SUCCESS") =>
                /\ Pre(p).state = "CLAIMED"
                /\ RowOf(registrations', call[p].email) =
                       [Pre(p) EXCEPT !.state = "ACTIVE", !.activated_at = txNow[p]]
                /\ txNow[p] # NoTime]_vars

\* A verification whose transaction began 59 seconds after the claim has
\* locked the record and decided SUCCESS while the store's clock is at or
\* past the 60th second.
C16_Witness ==
    \E p \in Procs :
        /\ VerifyHolds(p) /\ result[p] = "SUCCESS"
        /\ Age(p) = TTL - 1
        /\ now - Pre(p).created_at >= TTL
        /\ Post(p).state = "ACTIVE"

(* C17: a verification on a CLAIMED record within TTL that fails for any
   reason (wrong code, wrong password, both) returns INVALID_CODE, or
   LOCKED when it makes the third failure, and the result and the record
   it leaves are those every other failing combination of code and
   password yields on a copy of the same record. *)
C17_FailuresIndistinguishable ==
    \A p \in Procs :
        (/\ VerifyHolds(p)
         /\ Pre(p).state = "CLAIMED"
         /\ Pre(p).created_at > txNow[p] - TTL
         /\ ~(CodeOk(p) /\ PasswordOk(p))) =>
            /\ result[p] = IF Pre(p).attempt_count + 1 >= MaxAttempts
                           THEN "LOCKED" ELSE "INVALID_CODE"
            /\ \A c \in Codes, pw \in Passwords :
                  ~(c = Pre(p).verification_code
                      /\ Checkpw(pw, Pre(p).password_hash)) =>
                      LET other == VerifyRow(Pre(p), c, pw, txNow[p]) IN
                      other.result = result[p] /\ other.row = Post(p)

\* The right code with a wrong password has just been counted as the
\* first failed attempt.
C17_Witness ==
    \E p \in Procs :
        /\ VerifyHolds(p) /\ Pre(p).state = "CLAIMED" /\ Age(p) < TTL
        /\ CodeOk(p) /\ ~PasswordOk(p)
        /\ Pre(p).attempt_count = 0
        /\ result[p] = "INVALID_CODE" /\ Post(p).attempt_count = 1

(* C18: on every path of a verification exactly one code comparison and
   then exactly one password verification are made, and only then the
   call returns: the password is checked against the stored hash, or the
   dummy hash when there is no record or the stored hash is NULL; the code
   is compared with the stored code, or the dummy code when there is no
   record. *)
C18_ComparisonsAlwaysMade ==
    [][\A p \in Procs :
          VerifyExecutes(p) =>
              LET rows == RowsOf(registrations, call[p].email)
                  stored_code == IF rows = {} THEN DummyCode
                                 ELSE RowOf(registrations, call[p].email).verification_code
                  stored_hash ==
                      IF rows = {} THEN _DUMMY_BCRYPT_HASH
                      ELSE IF RowOf(registrations, call[p].email).password_hash = NULL
                           THEN _DUMMY_BCRYPT_HASH
                           ELSE RowOf(registrations, call[p].email).password_hash
              IN  /\ Len(ops'[p]) = 3
                  /\ ops'[p][1] = [fn |-> "compare_digest", stored |-> stored_code,
                                   given |-> call[p].code]
                  /\ ops'[p][2] = [fn |-> "checkpw", given |-> call[p].password,
                                   hashed |-> stored_hash]
                  /\ ops'[p][3] = [fn |-> "return", value |-> result'[p]]]_vars

\* A verification has read a LOCKED record, whose hash is purged: it has
\* compared the code with the stored one and checked the password against
\* the dummy hash before answering LOCKED.
C18_Witness ==
    \E p \in Procs :
        /\ VerifyHolds(p) /\ Pre(p).state = "LOCKED" /\ Pre(p).password_hash = NULL
        /\ Len(ops[p]) = 3
        /\ ops[p][2].hashed = _DUMMY_BCRYPT_HASH
        /\ ops[p][3].value = "LOCKED"

\* The connections whose call has returned.
Done == {p \in Procs : pc[p] = "done"}

(* C19: whatever the interleaving, the values returned by the calls that
   have returned and the table they leave are those of running the same
   calls one after another in some order, each with a clock reading up to
   the present as the NOW() of its transaction; two verifications never
   both return SUCCESS, and when every call is a claim at most one returns
   true. *)
C19_Serializable ==
    (\A p \in Procs : pc[p] \in {"idle", "done"}) =>
        /\ \E order \in Orders(Done), tau \in [Done -> {t \in Instants : t <= now}] :
              /\ \A k \in DOMAIN order : SeqResult(order, tau, k) = result[order[k]]
              /\ SeqTable(order, tau, Cardinality(Done)) = registrations
        /\ Cardinality(ResultsOf("SUCCESS")) <= 1
        /\ (\A p \in Done : call[p].op = "claim") =>
              Cardinality(ResultsOf("true")) <= 1

\* A claim and a verification with the claimed credentials, issued on an
\* expired record, have both returned: the claim won and the verification
\* then activated the new record.
C19_Witness ==
    \E p, q \in Procs, r0 \in registrations0, r \in registrations :
        /\ r0.state = "EXPIRED"
        /\ pc[p] = "done" /\ call[p].op = "claim" /\ result[p] = "true"
        /\ pc[q] = "done" /\ call[q].op = "verify" /\ result[q] = "SUCCESS"
        /\ r.state = "ACTIVE" /\ r.password_hash = call[p].password_hash

\* Every connection has issued verify_and_activate with a wrong code or a
\* wrong password on the CLAIMED row r0 the run started with, within its
\* TTL, and the transaction has executed.
C20_AllVerifyWrong(r0) ==
    /\ r0.state = "CLAIMED"
    /\ r0.created_at > now - TTL
    /\ \A p \in Procs :
          /\ call[p].op = "verify" /\ call[p].email = r0.email /\ Executed(p)
          /\ ~(call[p].code = r0.verification_code
                 /\ Checkpw(call[p].password, r0.password_hash))

Min(a, b) == IF a <= b THEN a ELSE b

(* C20: when all N connections verify with wrong credentials one CLAIMED
   row within its TTL that has k failed attempts, in whatever order their
   steps interleave, exactly min(N, 2 - k) calls return INVALID_CODE and
   all others LOCKED; once all have returned the row counts min(k + N, 3)
   attempts and is LOCKED, its hash purged, when that is 3. A call that
   finds the row reads it only once it holds the row lock, and no row ever
   counts more than 3 attempts. *)
C20_NoLostAttempts ==
    /\ [](/\ \A r \in registrations : r.attempt_count <= MaxAttempts
          /\ \A r0 \in registrations0 : C20_AllVerifyWrong(r0) =>
                LET k == r0.attempt_count
                    total == Min(k + NumProcs, MaxAttempts)
                IN  /\ Cardinality(ResultsOf("INVALID_CODE"))
                          = Min(NumProcs, MaxAttempts - 1 - k)
                    /\ ResultsOf("INVALID_CODE") \cup ResultsOf("LOCKED") = Procs
                    /\ (\A p \in Procs : pc[p] = "done") =>
                          registrations =
                            {IF total = MaxAttempts
                             THEN [r0 EXCEPT !.state = "LOCKED",
                                             !.attempt_count = total,
                                             !.password_hash = NULL]
                             ELSE [r0 EXCEPT !.attempt_count = total]})
    /\ [][\A p \in Procs :
             (VerifyExecutes(p) /\ RowsOf(registrations, call[p].email) # {}) =>
                 rowLock[call[p].email] = 0 /\ rowLock'[call[p].email] = p]_vars

\* On a row with one failed attempt, one wrong verification has returned
\* INVALID_CODE and the other, holding the lock, makes the third failure.
C20_Witness ==
    \E r0 \in registrations0, p, q \in Procs :
        /\ C20_AllVerifyWrong(r0) /\ r0.attempt_count = 1
        /\ pc[p] = "done" /\ result[p] = "INVALID_CODE"
        /\ VerifyHolds(q) /\ Pre(q).attempt_count = 2
        /\ result[q] = "LOCKED" /\ Post(q).state = "LOCKED"

\* Every connection has issued claim_email for the email of the EXPIRED or
\* LOCKED row r0 the run started with, and the statement has run.
C21_AllReclaim(r0) ==
    /\ r0.state \in {"EXPIRED", "LOCKED"}
    /\ \A p \in Procs : call[p].op = "claim" /\ call[p].email = r0.email /\ Executed(p)

(* C21: when all N connections call claim_email for an email whose record
   is EXPIRED or LOCKED, in whatever order their steps interleave, exactly
   one call returns true and every other returns false; once the winner
   has committed the record is CLAIMED with attempt_count 0, no
   activated_at, and the password_hash and verification_code of the
   winner, both from the same call. *)
C21_ExactlyOneReclaimWins ==
    \A r0 \in registrations0 : C21_AllReclaim(r0) =>
        /\ Cardinality(ResultsOf("true")) = 1
        /\ ResultsOf("true") \cup ResultsOf("false") = Procs
        /\ \A w \in ResultsOf("true") : pc[w] = "done" =>
              \E r \in registrations :
                 /\ registrations = {r}
                 /\ r = [r0 EXCEPT !.state = "CLAIMED",
                                   !.attempt_count = 0,
                                   !.password_hash = call[w].password_hash,
                                   !.verification_code = call[w].code,
                                   !.created_at = r.created_at,
                                   !.activated_at = NoTime]

\* Two re-claims of a LOCKED record with different values overlapped: q
\* was issued before the winner p, ran after p committed, and lost.
C21_Witness ==
    \E r0 \in registrations0, p, q \in Procs :
        /\ C21_AllReclaim(r0) /\ r0.state = "LOCKED"
        /\ pc[p] = "done" /\ result[p] = "true"
        /\ pc[q] = "claim_executed" /\ result[q] = "false"
        /\ call[p].password_hash # call[q].password_hash
        /\ call[p].code # call[q].code
        /\ txNow[q] < RowOf(registrations, r0.email).created_at

(* C22: a register request calls claim_email at most once, and exactly
   once by the time it ends, with the normalized email; the sink is called
   only after a claim that returned true, at most once, with the
   normalized email and the code passed to claim_email. When the request
   has ended: after a claim that returned true the sink has been called
   exactly once and (unless the sink raised) the normalized email is
   returned; after a claim that returned false EmailAlreadyClaimed is
   raised and the sink has not been called. *)
C22_RegisterFlow ==
    svc.op = "register" =>
        /\ Len(svc.repo) <= 1 /\ Len(svc.sent) <= 1
        /\ \A i \in DOMAIN svc.repo :
              /\ svc.repo[i].call.op = "claim"
              /\ svc.repo[i].call.email = _normalize_email(svc.email)
        /\ svc.sent # <<>> =>
              /\ Len(svc.repo) = 1 /\ svc.repo[1].result = "true"
              /\ svc.sent[1] = [email |-> _normalize_email(svc.email),
                                code |-> svc.repo[1].call.code]
        /\ svc.pc = "returned" =>
              /\ Len(svc.repo) = 1
              /\ svc.repo[1].result = "true" =>
                    /\ Len(svc.sent) = 1
                    /\ svc.raised \in {"", "SenderError"}
                    /\ svc.raised = "" => svc.returned = _normalize_email(svc.email)
              /\ svc.repo[1].result = "false" =>
                    /\ svc.raised = "EmailAlreadyClaimed"
                    /\ svc.sent = <<>>
                    /\ svc.returned = <<>>

\* The second register of a run, for an email written with capitals and
\* blanks, has been refused: EmailAlreadyClaimed, and nothing was sent.
C22_Witness ==
    /\ svc.op = "register" /\ svc.pc = "returned" /\ svc.n = 2
    /\ svc.email # _normalize_email(svc.email)
    /\ svc.repo[1].result = "false"
    /\ svc.raised = "EmailAlreadyClaimed" /\ svc.sent = <<>>

(* C23: whichever of INVALID_CODE, EXPIRED, LOCKED and NOT_FOUND the store
   returns, the activate endpoint answers with the same response, HTTP 401
   with detail "Invalid credentials or code" and nothing else; only
   SUCCESS is answered differently (200). *)
C23_FailuresCollapsed ==
    (svc.op = "activate" /\ svc.pc = "returned") =>
        /\ svc.verify_result \in VerifyResult
        /\ svc.verify_result \in {"INVALID_CODE", "EXPIRED", "LOCKED", "NOT_FOUND"} =>
              /\ svc.http = [status |-> 401, detail |-> "Invalid credentials or code",
                             email |-> <<>>]
              /\ svc.raised = "" /\ svc.returned = <<>> /\ svc.sent = <<>>
        /\ svc.verify_result = "SUCCESS" => svc.http.status = 200

\* The second activation of a run was answered LOCKED by the store and 401
\* by the endpoint.
C23_Witness ==
    /\ svc.op = "activate" /\ svc.pc = "returned" /\ svc.n = 2
    /\ svc.verify_result = "LOCKED"
    /\ svc.http.status = 401 /\ svc.http.detail = "Invalid credentials or code"

\* e is raw without its leading and trailing blanks and with every letter
\* in lower case.
IsNormalizationOf(e, raw) ==
    \E a, b \in 0..Len(raw) :
        /\ a + b <= Len(raw)
        /\ \A k \in 1..a : raw[k] \in Whitespace
        /\ \A k \in (Len(raw) - b + 1)..Len(raw) : raw[k] \in Whitespace
        /\ Len(e) = Len(raw) - a - b
        /\ \A k \in 1..Len(e) : e[k] = LowerChar(raw[a + k]) /\ e[k] # "A"
        /\ e # <<>> => e[1] \notin Whitespace /\ e[Len(e)] \notin Whitespace

\* The step in which the running request makes its store call.
StoreCallStep ==
    /\ svc.pc \in {"register_called", "activate_called"}
    /\ svc'.pc # svc.pc

(* C26: the email a register or an activate request passes to the store is
   the trimmed, lowercased form of the email it received, and normalizing
   it again changes nothing; so the call addresses the record whose email
   is that form however the request wrote it: a register is refused when
   that record is CLAIMED or ACTIVE, and an activation with its code and
   password within its TTL succeeds. *)
C26_NormalizedEmail ==
    [][StoreCallStep =>
         LET made == svc'.repo[1]
             c == made.call
         IN  /\ Len(svc'.repo) = 1
             /\ IsNormalizationOf(c.email, svc.email)
             /\ _normalize_email(c.email) = c.email
             /\ \A r \in registrations :
                   IsNormalizationOf(r.email, svc.email) =>
                       /\ r.email = c.email
                       /\ (svc.op = "register" /\ r.state \in {"CLAIMED", "ACTIVE"}) =>
                              made.result = "false"
                       /\ (svc.op = "activate" /\ Activatable(r, c)
                              /\ r.created_at > now - TTL) =>
                              /\ made.result = "SUCCESS"
                              /\ \E n \in registrations' :
                                    n.email = r.email /\ n.state = "ACTIVE"]_vars

\* Starting from the empty table, a register has claimed an email and the
\* next request, which writes it with capitals and blanks around it, has
\* activated the record.
C26_Witness ==
    /\ registrations0 = {}
    /\ svc.op = "activate" /\ svc.n = 2 /\ svc.pc = "returned"
    /\ svc.email = <<" ", "A", " ">>
    /\ svc.verify_result = "SUCCESS"
    /\ \E r \in registrations : r.email = <<"a">> /\ r.state = "ACTIVE"

\* Connection p has re-claimed the EXPIRED or LOCKED row r0 the run started
\* with, and connection q has locked the re-claimed record, untouched since
\* and within 60 s of the re-claim, for a verification.
C24_VerifyAfterReclaim(r0, p, q) ==
    /\ r0.state \in {"EXPIRED", "LOCKED"}
    /\ pc[p] = "done" /\ call[p].op = "claim" /\ call[p].email = r0.email
    /\ result[p] = "true"
    /\ VerifyHolds(q) /\ call[q].email = r0.email
    /\ Pre(q).state = "CLAIMED" /\ Pre(q).attempt_count = 0
    /\ Age(q) < TTL

(* C24: after a claim_email that returned true on an EXPIRED or LOCKED
   record, the record holds the new hash and code; the first verification
   on it with another code -- the previous one, when the new code differs
   from it -- returns INVALID_CODE and leaves attempt_count 1, and one with
   the new code and the new password, made within 60 s of the re-claim,
   returns SUCCESS and activates it, however old the original claim is. *)
C24_OldCodeInvalidNewCodeValid ==
    \A r0 \in registrations0 : \A p, q \in Procs :
        C24_VerifyAfterReclaim(r0, p, q) =>
            /\ Pre(q).password_hash = call[p].password_hash
            /\ Pre(q).verification_code = call[p].code
            /\ call[q].code # call[p].code =>
                  /\ result[q] = "INVALID_CODE"
                  /\ Post(q) = [Pre(q) EXCEPT !.attempt_count = 1]
            /\ (call[q].code = call[p].code
                  /\ Checkpw(call[q].password, call[p].password_hash)) =>
                  /\ result[q] = "SUCCESS"
                  /\ Post(q).state = "ACTIVE"

\* An expired record, claimed at 0, has been claimed again with another
\* code 60 s or more later, and a verification with the previous code is
\* counted as the first failure of the new lifetime.
C24_Witness ==
    \E r0 \in registrations0 : \E p, q \in Procs :
        /\ C24_VerifyAfterReclaim(r0, p, q)
        /\ r0.state = "EXPIRED"
        /\ call[p].code # r0.verification_code
        /\ call[q].code = r0.verification_code
        /\ Pre(q).created_at >= r0.created_at + TTL
        /\ result[q] = "INVALID_CODE" /\ Post(q).attempt_count = 1

\* The row a verification leaves when it expires it.
Expired(row) == [row EXCEPT !.state = "EXPIRED", !.password_hash = NULL]

(* C28: a verification on a CLAIMED record expires it exactly
   when its age (NOW() - created_at) is strictly greater than 60 s; at
   exactly 60 s it is not expired. *)
C28_ExpiresWhenOlderThan60 ==
    \A p \in Procs :
        (VerifyHolds(p) /\ Pre(p).state = "CLAIMED") =>
            ((result[p] = "EXPIRED" /\ Post(p) = Expired(Pre(p))) <=> Age(p) > TTL)

(* What ttl_sql does at the boundary: a verification on a CLAIMED record
   expires it (state EXPIRED, password_hash NULL, result EXPIRED) exactly
   when its age (NOW() - created_at) is 60 s or more; a record younger than
   60 s is not expired and goes on to the attempt-count and credential
   checks. *)
ExpiresFrom60 ==
    \A p \in Procs :
        (VerifyHolds(p) /\ Pre(p).state = "CLAIMED") =>
            /\ (result[p] = "EXPIRED" /\ Post(p) = Expired(Pre(p))) <=> Age(p) >= TTL
            /\ Age(p) < TTL =>
                  /\ Post(p).state # "EXPIRED"
                  /\ result[p] =
                        IF AttemptsExhausted(Pre(p).attempt_count) THEN "LOCKED"
                        ELSE IF CodeOk(p) /\ PasswordOk(p) THEN "SUCCESS"
                        ELSE IF Pre(p).attempt_count + 1 >= MaxAttempts THEN "LOCKED"
                        ELSE "INVALID_CODE"

\* A verification with the right code and password on a record exactly
\* 60 s old has expired it.
C28_Witness ==
    \E p \in Procs :
        /\ VerifyHolds(p) /\ Pre(p).state = "CLAIMED" /\ Age(p) = TTL
        /\ CodeOk(p) /\ PasswordOk(p)
        /\ result[p] = "EXPIRED" /\ Post(p) = Expired(Pre(p))

(* C29: a verification on a CLAIMED record past its TTL (60 s or more old
   at the NOW() of the call) returns EXPIRED whether code and password are
   right or wrong and whatever attempt_count is; it sets state EXPIRED and
   password_hash NULL and leaves attempt_count alone; no record goes from
   EXPIRED to LOCKED. *)
C29_TtlCheckFirst ==
    /\ [](\A p \in Procs :
            (VerifyHolds(p) /\ Pre(p).state = "CLAIMED" /\ Age(p) >= TTL) =>
                /\ result[p] = "EXPIRED"
                /\ Post(p) = Expired(Pre(p))
                /\ Post(p).attempt_count = Pre(p).attempt_count)
    /\ [][\A r \in registrations : \A n \in registrations' :
             (r.email = n.email /\ r.state = "EXPIRED") => n.state # "LOCKED"]_vars

\* A record with two failed attempts, past its TTL: a verification with a
\* wrong code expires it instead of locking it.
C29_Witness ==
    \E p \in Procs :
        /\ VerifyHolds(p) /\ Pre(p).state = "CLAIMED" /\ Age(p) >= TTL
        /\ Pre(p).attempt_count = MaxAttempts - 1
        /\ ~CodeOk(p)
        /\ result[p] = "EXPIRED" /\ Post(p).state = "EXPIRED"
        /\ Post(p).attempt_count = MaxAttempts - 1

(* C30: a verification on a CLAIMED record within its TTL whose
   attempt_count is already 3 or more returns LOCKED, never SUCCESS or
   INVALID_CODE, also when the supplied code and password are both right. *)
C30_AlreadyLocked ==
    \A p \in Procs :
        (/\ VerifyHolds(p) /\ Pre(p).state = "CLAIMED"
         /\ Age(p) < TTL /\ Pre(p).attempt_count >= MaxAttempts) =>
            result[p] = "LOCKED"

\* A verification with the right code and password on such a record has
\* answered LOCKED.
C30_Witness ==
    \E p \in Procs :
        /\ VerifyHolds(p) /\ Pre(p).state = "CLAIMED"
        /\ Age(p) < TTL /\ Pre(p).attempt_count >= MaxAttempts
        /\ CodeOk(p) /\ PasswordOk(p)
        /\ result[p] = "LOCKED"

\* Connection p has a call under way: begun and not yet returned.
Running(p) == pc[p] \in {"claim_begun", "claim_executed", "verify_begun", "verify_executed"}

\* The statement of the call of connection p is waiting for a row lock
\* another transaction holds.
Blocked(p) ==
    /\ pc[p] \in {"claim_begun", "verify_begun"}
    /\ rowLock[call[p].email] \notin {0, p}
    /\ pc[p] = "verify_begun" => RowsOf(registrations, call[p].email) # {}

\* A transaction holds row locks only between its statement and its
\* commit, and then at most the one of the email of its call.
OneLockPerCall ==
    \A p \in Procs : \A e \in AllEmails :
        rowLock[e] = p => /\ pc[p] \in {"claim_executed", "verify_executed"}
                          /\ call[p].email = e

\* While a call is under way some call can take a step.
NoDeadlock ==
    (\E p \in Procs : Running(p)) =>
        \E p \in Procs :
            ENABLED (\/ ClaimExecute(p) \/ ClaimCommit(p) \/ VerifyExecuteNotFound(p)
                     \/ VerifyExecuteRow(p) \/ VerifyCommit(p))

(* C25: no operation blocks for ever: under fair scheduling every
   claim_email and verify_and_activate call that has begun eventually
   returns, with calls on the same and on different emails under way at
   once; a transaction holds the lock of at most the one row of its email,
   its return releases it, and no state with a call under way and no call
   able to step is reachable. *)
C25_EveryCallReturns ==
    /\ [](OneLockPerCall /\ NoDeadlock)
    /\ [][\A p \in Procs : (ClaimReturns(p) \/ VerifyReturns(p)) =>
              \A e \in AllEmails : rowLock'[e] # p]_vars
    /\ \A p \in Procs : Running(p) ~> (pc[p] = "done" /\ result[p] # "none")

\* A call is waiting behind the row lock of the other connection's
\* transaction while that one has executed and not yet committed.
C25_Witness ==
    \E p, q \in Procs :
        /\ p # q
        /\ Blocked(p)
        /\ rowLock[call[p].email] = q
        /\ pc[q] \in {"claim_executed", "verify_executed"}

\* The committed row of the email of the call of connection p, before and
\* after the step.
RowBefore(p) == RowOf(registrations, call[p].email)
RowAfter(p) == RowOf(registrations', call[p].email)

\* No committed row is in a state only the middle of a transition has.
NoIntermediateRow ==
    \A r \in registrations :
        /\ ~(r.state = "CLAIMED" /\ r.attempt_count >= MaxAttempts)
        /\ r.state \in {"LOCKED", "EXPIRED"} => r.password_hash = NULL

(* C31: a verification decides and writes in one row-locked transaction
   with one commit: the table changes only at the commit of a call; the
   commit of a verification that found its row replaces it in one step by
   the row the call decided on, so no committed row is ever CLAIMED with
   attempt_count 3 or LOCKED or EXPIRED with a password_hash; and the result
   returned matches the committed row: SUCCESS gives ACTIVE, EXPIRED gives
   EXPIRED, INVALID_CODE gives CLAIMED with attempt_count one higher, and
   LOCKED by a third failure gives LOCKED. *)
C31_OneCommitPerVerify ==
    /\ []NoIntermediateRow
    /\ [][registrations' # registrations =>
             \E p \in Procs : ClaimReturns(p) \/ VerifyReturns(p)]_vars
    /\ [][\A p \in Procs :
             (VerifyReturns(p) /\ result[p] # "NOT_FOUND") =>
                LET decided == VerifyRow(RowBefore(p), call[p].code,
                                         call[p].password, txNow[p])
                IN  /\ RowsOf(registrations', call[p].email) = {decided.row}
                    /\ result[p] = decided.result
                    /\ result[p] = "SUCCESS" => RowAfter(p).state = "ACTIVE"
                    /\ result[p] = "EXPIRED" => RowAfter(p).state = "EXPIRED"
                    /\ result[p] = "INVALID_CODE" =>
                          /\ RowAfter(p).state = "CLAIMED"
                          /\ RowAfter(p).attempt_count = RowBefore(p).attempt_count + 1
                    /\ (result[p] = "LOCKED" /\ RowBefore(p).state = "CLAIMED") =>
                          /\ RowAfter(p).state = "LOCKED"
                          /\ RowAfter(p).attempt_count = MaxAttempts
                          /\ RowAfter(p).password_hash = NULL]_vars

\* The third failure has been decided under the row lock and is not yet
\* committed, while the other connection's verification of the same email
\* has begun: the table still shows the row CLAIMED with two attempts.
C31_Witness ==
    \E p, q \in Procs :
        /\ p # q
        /\ VerifyHolds(p) /\ result[p] = "LOCKED"
        /\ Pre(p).state = "CLAIMED" /\ Pre(p).attempt_count = MaxAttempts - 1
        /\ Post(p).state = "LOCKED" /\ Post(p).password_hash = NULL
        /\ pc[q] = "verify_begun" /\ call[q].email = call[p].email

(* C32: ACTIVE, EXPIRED and LOCKED are terminal and nothing moves
   backwards: in no step does a record leave ACTIVE, EXPIRED or LOCKED, and
   no existing record becomes CLAIMED from another state. *)
C32_TerminalStates ==
    [][\A r \in registrations : r.state \in {"ACTIVE", "EXPIRED", "LOCKED"} =>
          \A n \in RowsOf(registrations', r.email) : n.state = r.state]_vars

(* C32 amended: ACTIVE is terminal; no verify_and_activate call moves a
   record out of ACTIVE, EXPIRED or LOCKED or into CLAIMED; a record leaves
   EXPIRED or LOCKED only by the commit of a claim_email call that returns
   true, which replaces it by a freshly claimed record (CLAIMED,
   attempt_count 0, the call's hash and code, created_at its NOW()); no
   record becomes CLAIMED in any other way. *)
C32_TerminalButReclaimable ==
    [][\A r \in registrations : r.state \in {"ACTIVE", "EXPIRED", "LOCKED"} =>
          \E n \in registrations' :
             /\ RowsOf(registrations', r.email) = {n}
             /\ r.state = "ACTIVE" => n = r
             /\ (\E p \in Procs : VerifyReturns(p)) => n = r
             /\ \/ n.state = r.state
                \/ /\ r.state \in {"EXPIRED", "LOCKED"}
                   /\ \E p \in Procs :
                        /\ ClaimReturns(p) /\ call[p].email = r.email
                        /\ result[p] = "true"
                        /\ n = InsertedRow(r.email, call[p].password_hash,
                                           call[p].code, txNow[p])]_vars

\* A claim_email call has found the record LOCKED and is about to commit
\* the freshly claimed record that replaces it.
C32_Witness ==
    \E p \in Procs :
        /\ pc[p] = "claim_executed" /\ rowLock[call[p].email] = p
        /\ RowsOf(registrations, call[p].email) # {}
        /\ RowBefore(p).state = "LOCKED"
        /\ result[p] = "true"
        /\ \E n \in wr[p] : n.state = "CLAIMED" /\ n.attempt_count = 0

\* The rows of the table and the rows written and not yet committed.
AllRows == registrations \cup UNION {wr[p] : p \in Procs}

(* C33: in every state reached through claim_email and verify_and_activate
   alone, attempt_count of every record lies in 0..3 and is 3 exactly when
   the record is LOCKED; so no record is CLAIMED with attempt_count 3 or
   more, and no verification that finds a CLAIMED record within its TTL
   finds attempt_count already at the limit (the branch "already locked" is
   not taken). *)
C33_ThreeIffLocked ==
    /\ \A r \in AllRows :
          /\ r.attempt_count \in 0..MaxAttempts
          /\ r.attempt_count = MaxAttempts <=> r.state = "LOCKED"
    /\ \A p \in Procs :
          (VerifyHolds(p) /\ Pre(p).state = "CLAIMED" /\ TtlSql(Pre(p), txNow[p])) =>
              ~AttemptsExhausted(Pre(p).attempt_count)

\* The third failure on a record within its TTL: the verification found
\* attempt_count 2 and passed the "already locked" test; it leaves the
\* record LOCKED with attempt_count 3. The other connection's verification
\* was one of the earlier failures.
C33_Witness ==
    \E p, q \in Procs :
        /\ p # q
        /\ VerifyHolds(p) /\ Pre(p).state = "CLAIMED" /\ TtlSql(Pre(p), txNow[p])
        /\ Pre(p).attempt_count = MaxAttempts - 1
        /\ result[p] = "LOCKED" /\ Post(p).attempt_count = MaxAttempts
        /\ pc[q] = "done" /\ call[q].op = "verify" /\ result[q] = "INVALID_CODE"

\* The record is CLAIMED and, by the store's clock, 60 s old or older.
Outlived(r) == r.state = "CLAIMED" /\ now - r.created_at >= TTL

(* C34: a CLAIMED record that has outlived its TTL stays CLAIMED and keeps
   its password_hash until a verify_and_activate call on its email performs
   the lazy expiry; until then every claim_email call for the email returns
   false; neither the clock nor claim_email calls change the record. *)
C34_ClaimedUntilLazyExpiry ==
    [][\A r \in registrations : Outlived(r) =>
          /\ r.password_hash # NULL
          /\ \A p \in Procs : (ClaimReturns(p) /\ call[p].email = r.email) =>
                result[p] = "false"
          /\ \/ \E n \in registrations' :
                  /\ RowsOf(registrations', r.email) = {n}
                  /\ n.state = "CLAIMED" /\ n.password_hash = r.password_hash
             \/ \E p \in Procs :
                  /\ VerifyReturns(p) /\ call[p].email = r.email
                  /\ result[p] = "EXPIRED"
                  /\ RowsOf(registrations', r.email) = {Expired(r)}]_vars

(* C34 amended: a CLAIMED record that has outlived its TTL stays CLAIMED
   and keeps its password_hash until a verify_and_activate call on its email
   commits; until then every claim_email call for the email returns false,
   and neither the clock nor claim_email calls change the record. The
   verification that changes it performs the lazy expiry when its NOW() (the
   clock when its transaction began) is 60 s or more past created_at; a
   verification whose transaction began inside the window still activates
   the record, counts a failure or locks it. *)
C34_ClaimedUntilVerifyCommits ==
    [][\A r \in registrations : Outlived(r) =>
          /\ r.password_hash # NULL
          /\ \A p \in Procs : (ClaimReturns(p) /\ call[p].email = r.email) =>
                result[p] = "false"
          /\ \/ r \in registrations'
             \/ \E p \in Procs :
                  /\ VerifyReturns(p) /\ call[p].email = r.email
                  /\ RowsOf(registrations', r.email) =
                        {VerifyRow(r, call[p].code, call[p].password, txNow[p]).row}
                  /\ txNow[p] - r.created_at >= TTL =>
                        /\ result[p] = "EXPIRED"
                        /\ RowsOf(registrations', r.email) = {Expired(r)}
                  /\ txNow[p] - r.created_at < TTL => result[p] # "EXPIRED"]_vars

\* A claim_email call that began after the record outlived its TTL has run
\* on it and answers false, writing nothing.
C34_Witness ==
    \E p \in Procs :
        /\ pc[p] = "claim_executed" /\ rowLock[call[p].email] = p
        /\ RowsOf(registrations, call[p].email) # {}
        /\ Outlived(RowBefore(p))
        /\ txNow[p] - RowBefore(p).created_at >= TTL
        /\ result[p] = "false" /\ wr[p] = {}

\* The verification of connection p has run and found no row (it holds no
\* row lock).
FoundNoRow(p) == pc[p] = "verify_executed" /\ rowLock[call[p].email] # p

(* C35: a verification for an email that has no record never returns
   SUCCESS and never creates a record, also when the code is the dummy code
   "0000" and the password the one the dummy hash was computed from, so that
   both comparisons give true: the result is NOT_FOUND. *)
C35_NoRowNeverSucceeds ==
    /\ [](\A p \in Procs : FoundNoRow(p) => result[p] = "NOT_FOUND" /\ wr[p] = {})
    /\ [][\A p \in Procs :
             /\ (VerifyExecutes(p) /\ RowsOf(registrations, call[p].email) = {}) =>
                    result'[p] = "NOT_FOUND"
             /\ (VerifyReturns(p) /\ FoundNoRow(p)) =>
                    /\ result'[p] = "NOT_FOUND"
                    /\ registrations' = registrations]_vars

\* A verification with the dummy code and the dummy password has run on an
\* email without record: both comparisons gave true and the answer is
\* NOT_FOUND.
C35_Witness ==
    \E p \in Procs :
        /\ FoundNoRow(p) /\ RowsOf(registrations, call[p].email) = {}
        /\ CompareDigest(DummyCode, call[p].code)
        /\ Checkpw(call[p].password, _DUMMY_BCRYPT_HASH)
        /\ result[p] = "NOT_FOUND"

(* C36: over the whole history of an email, in any sequence and
   interleaving of calls, at most one verification returns SUCCESS; once
   the record is ACTIVE every claim_email call that returns gives false,
   every verify_and_activate call that returns gives NOT_FOUND, and no field
   of the record changes again. *)
C36_AtMostOneSuccess ==
    /\ [](\A e \in AllEmails : SuccessesOf(e) <= 1)
    /\ [][\A r \in registrations : r.state = "ACTIVE" =>
             /\ RowsOf(registrations', r.email) = {r}
             /\ \A p \in Procs :
                   /\ (ClaimReturns(p) /\ call[p].email = r.email) =>
                          result'[p] = "false"
                   /\ (VerifyReturns(p) /\ call[p].email = r.email) =>
                          result'[p] = "NOT_FOUND"]_vars

\* After the one SUCCESS of the email a claim_email call has returned false
\* and a verification with the right code and password has run on the
\* ACTIVE record: NOT_FOUND, nothing written.
C36_Witness ==
    \E p, q \in Procs :
        /\ p # q
        /\ VerifyHolds(p) /\ Pre(p).state = "ACTIVE"
        /\ CodeOk(p) /\ PasswordOk(p)
        /\ result[p] = "NOT_FOUND" /\ wr[p] = {}
        /\ SuccessesOf(call[p].email) = 1
        /\ pc[q] = "done" /\ call[q].op = "claim" /\ call[q].email = call[p].email
        /\ result[q] = "false"

\* The columns of the table and those in which two versions of a row differ.
Columns ==
    {"email", "password_hash", "verification_code", "state", "attempt_count",
     "created_at", "activated_at"}
Changed(old, new) == {f \in Columns : old[f] # new[f]}

(* C37: each transition of verify_and_activate changes only its own
   columns: a failed attempt below the limit changes attempt_count alone
   (+1); the lockout changes state, attempt_count (+1) and password_hash;
   the expiry changes state and password_hash; the activation changes state
   and activated_at, leaving password_hash and attempt_count; email,
   verification_code and created_at are never changed, and a call that
   returns NOT_FOUND or finds the record LOCKED changes nothing. *)
C37_OnlyOwnColumns ==
    [][\A p \in Procs :
          (VerifyReturns(p) /\ rowLock[call[p].email] = p) =>
             LET old == RowBefore(p)
                 new == RowAfter(p)
                 diff == Changed(old, new)
             IN  /\ RowsOf(registrations', call[p].email) = {new}
                 /\ diff \cap {"email", "verification_code", "created_at"} = {}
                 /\ result[p] = "INVALID_CODE" =>
                       /\ diff = {"attempt_count"}
                       /\ new.attempt_count = old.attempt_count + 1
                 /\ (result[p] = "LOCKED" /\ old.state = "CLAIMED") =>
                       /\ diff = {"state", "attempt_count", "password_hash"}
                       /\ new.state = "LOCKED" /\ new.password_hash = NULL
                       /\ new.attempt_count = old.attempt_count + 1
                 /\ result[p] = "EXPIRED" =>
                       /\ diff = {"state", "password_hash"}
                       /\ new.state = "EXPIRED" /\ new.password_hash = NULL
                 /\ result[p] = "SUCCESS" =>
                       /\ diff = {"state", "activated_at"}
                       /\ new.state = "ACTIVE" /\ new.activated_at = txNow[p]
                 /\ (result[p] = "NOT_FOUND" \/ old.state = "LOCKED") => diff = {}]_vars

\* An activation decided on a record with one failed attempt: the row to be
\* committed differs from the row read in state and activated_at alone.
C37_Witness ==
    \E p \in Procs :
        /\ VerifyHolds(p) /\ result[p] = "SUCCESS"
        /\ Pre(p).attempt_count = 1
        /\ Changed(Pre(p), Post(p)) = {"state", "activated_at"}
        /\ Post(p).password_hash = Pre(p).password_hash
        /\ Post(p).attempt_count = 1

\* The step is the statement of the claim_email call of connection p.
ClaimExecutes(p) == pc[p] = "claim_begun" /\ pc'[p] = "claim_executed"

\* No other connection has a call on the email of the call of connection p.
AloneOnEmail(p) == \A q \in Procs \ {p} : call[q].email # call[p].email

(* C38: operations on one email never affect another: the commit of a
   call for email e leaves the rows (or the absence of a row) of every
   other email as they were; the value a call returns is the one it gives on
   the rows of e alone, whatever the table holds for other emails; and
   concurrent claim_email calls for different emails that had no record all
   return true. *)
C38_EmailsIndependent ==
    /\ [][\A p \in Procs : (ClaimReturns(p) \/ VerifyReturns(p)) =>
             \A e \in AllEmails \ {call[p].email} :
                 RowsOf(registrations', e) = RowsOf(registrations, e)]_vars
    /\ [][\A p \in Procs : (ClaimExecutes(p) \/ VerifyExecutes(p)) =>
             result'[p] = SeqStep(RowsOf(registrations, call[p].email),
                                  call[p], txNow[p]).result]_vars
    /\ [](\A p \in Procs :
            (/\ call[p].op = "claim" /\ Executed(p)
             /\ RowsOf(registrations0, call[p].email) = {}
             /\ AloneOnEmail(p)) => result[p] = "true")

\* Both connections have claimed, at the same time, different emails that
\* had no record: each holds the lock of its own row and both answer true,
\* while another email's record sits in the table.
C38_Witness ==
    \E p, q \in Procs :
        /\ p # q
        /\ pc[p] = "claim_executed" /\ pc[q] = "done"
        /\ call[p].op = "claim" /\ call[q].op = "claim"
        /\ call[p].email # call[q].email
        /\ RowsOf(registrations0, call[p].email) = {}
        /\ RowsOf(registrations0, call[q].email) = {}
        /\ result[p] = "true" /\ result[q] = "true"
        /\ RowsOf(registrations, call[q].email) # {}

\* The row the claim of the running register request has committed: CLAIMED
\* with the hash and the code passed to claim_email, no attempt counted.
ClaimStands ==
    /\ svc.repo # <<>>
    /\ LET c == svc.repo[Len(svc.repo)].call
       IN  \E r \in registrations :
              /\ RowsOf(registrations, c.email) = {r}
              /\ r.state = "CLAIMED" /\ r.attempt_count = 0
              /\ r.verification_code = c.code
              /\ r.password_hash = c.password_hash

(* C39: in register the claim is committed before the sink is called and
   is not undone afterwards: when the sink is about to be called and when
   it has raised, the record is in the table, CLAIMED with the code that
   was to be delivered; the exception of the sink reaches the caller; and
   the register request that follows for the same email fails with
   EmailAlreadyClaimed. *)
C39_ClaimSurvivesSinkFailure ==
    /\ (svc.op = "register" /\ svc.pc \in {"claimed", "sent"}) => ClaimStands
    /\ (svc.op = "register" /\ svc.raised = "SenderError") =>
          /\ svc.pc = "returned" /\ svc.returned = <<>>
          /\ svc.http = ServerError
          /\ ClaimStands
    /\ (/\ svc.op = "register" /\ svc.pc = "returned"
        /\ svc.last.raised = "SenderError"
        /\ svc.last.email = _normalize_email(svc.email)) =>
          /\ svc.raised = "EmailAlreadyClaimed"
          /\ svc.sent = <<>>

\* The sink raised in the first register; the second register, for the
\* same email written differently, has been refused and the record still
\* carries the code of the first.
C39_Witness ==
    /\ svc.op = "register" /\ svc.pc = "returned" /\ svc.n = 2
    /\ svc.last.raised = "SenderError"
    /\ svc.last.email = _normalize_email(svc.email)
    /\ svc.email # _normalize_email(svc.email)
    /\ svc.raised = "EmailAlreadyClaimed"
    /\ \E r \in registrations :
          /\ r.email = svc.last.email /\ r.state = "CLAIMED"
          /\ r.verification_code # svc.repo[1].call.code

ServiceTypeOK ==
    /\ svc.n \in 0..MaxRequests
    /\ svc.email \in RawEmails \cup {<<>>}
    /\ Len(svc.repo) <= 1 /\ Len(svc.sent) <= 1

TypeOK ==
    /\ \A r \in registrations :
         /\ r.email \in AllEmails
         /\ r.state \in TrustState
         /\ r.attempt_count \in 0..MaxAttempts
         /\ r.created_at \in Instants
    /\ now \in Instants
    /\ \A p \in Procs : result[p] \in VerifyResult \cup {"true", "false", "none"}
====
